---- MODULE Spec2Model ----
(***************************************************************************)
(* A model of the field-extraction engine of valuation_data_miner          *)
(* (src/src/data_parser.py).  Texts are strings; the regular expressions   *)
(* of the source are translated node by node into the small backtracking   *)
(* matcher below, which tries alternatives in the order Python's re does.  *)
(***************************************************************************)
EXTENDS Integers, Sequences, FiniteSets, TLC

VARIABLES pc, arg, ret
vars == <<pc, arg, ret>>

(***************************************************************************)
(* Strings and characters                                                  *)
(***************************************************************************)
\* Python's None: a value that is no text of the model.
None == "<None>"

Ch(s, i) == SubSeq(s, i, i)

Max(a, b) == IF a > b THEN a ELSE b
Min(a, b) == IF a < b THEN a ELSE b

CharsOf(s) == {Ch(s, i) : i \in 1..Len(s)}

Lowers == "abcdefghijklmnopqrstuvwxyz"
Uppers == "ABCDEFGHIJKLMNOPQRSTUVWXYZ"
Digit == CharsOf("0123456789")
Lower == CharsOf(Lowers)
Upper == CharsOf(Uppers)
\* [A-Za-z]
Letter == Lower \cup Upper
\* \s
Space == {" ", "\n", "\r", "\t"}
\* \w
Word == Letter \cup Digit \cup {"_"}

ToLower == [c \in Upper |-> Ch(Lowers, CHOOSE i \in 1..26 : Ch(Uppers, i) = c)]
ToUpper == [c \in Lower |-> Ch(Uppers, CHOOSE i \in 1..26 : Ch(Lowers, i) = c)]
LowerCh(c) == IF c \in Upper THEN ToLower[c] ELSE c
UpperCh(c) == IF c \in Lower THEN ToUpper[c] ELSE c

RECURSIVE MapStr(_, _, _, _)
\* s[i..j] with every character taken through the function f where f is defined
MapStr(f, s, i, j) ==
    IF i > j THEN ""
    ELSE IF i = j THEN (IF Ch(s, i) \in DOMAIN f THEN f[Ch(s, i)] ELSE Ch(s, i))
    ELSE MapStr(f, s, i, (i + j) \div 2) \o MapStr(f, s, (i + j) \div 2 + 1, j)

\* str.lower()
lower(s) == MapStr(ToLower, s, 1, Len(s))

(***************************************************************************)
(* Regular expressions: nodes                                              *)
(***************************************************************************)
\* an unbounded repeat count
Inf == -1

\* one character of the set cs (under re.IGNORECASE: cs holds both cases)
Set(cs) == [t |-> "set", cs |-> cs, neg |-> FALSE]
\* one character not in cs
NotSet(cs) == [t |-> "set", cs |-> cs, neg |-> TRUE]
\* "." under re.DOTALL
AnyCh == NotSet({})
\* a literal character, case-insensitive
Lit(c) == Set({LowerCh(c), UpperCh(c)})
Cat(a) == [t |-> "cat", a |-> a]
\* a literal string, case-insensitive
Str(s) == [t |-> "str", s |-> s]
Alt(a) == [t |-> "alt", a |-> a]
\* r{lo,hi}, greedy
Rep(r, lo, hi) == [t |-> "rep", r |-> r, lo |-> lo, hi |-> hi, greedy |-> TRUE]
\* r{lo,hi}?, lazy
Lazy(r, lo, hi) == [t |-> "rep", r |-> r, lo |-> lo, hi |-> hi, greedy |-> FALSE]
Opt(r) == Rep(r, 0, 1)
Star(r) == Rep(r, 0, Inf)
Plus(r) == Rep(r, 1, Inf)
\* capturing group number k
Grp(k, r) == [t |-> "grp", k |-> k, r |-> r]
\* ^ and $ under re.MULTILINE, \b, (?<=[cs])
Bol == [t |-> "bol"]
Eol == [t |-> "eol"]
WordB == [t |-> "wordb"]
Behind(cs) == [t |-> "behind", cs |-> cs]

\* the most capturing groups any pattern of the source has
NGroups == 8
NoGroups == [k \in 1..NGroups |-> <<0, 0>>]

IsWordAt(s, i) == i >= 1 /\ i <= Len(s) /\ Ch(s, i) \in Word

(***************************************************************************)
(* Regular expressions: the matcher.  M(r, s, i, g) is the list of the     *)
(* ways the node r matches s from position i, with the groups g set so     *)
(* far: records of the end position e and the groups, in the order in      *)
(* which a backtracking matcher tries them, each end position once (a      *)
(* later way to the same end is never the one chosen).                     *)
(***************************************************************************)
One(i, g) == <<[e |-> i, g |-> g]>>

\* the lists of ways, in order, as one list: each end position kept where it
\* comes first
Merge(lists) ==
    LET Before(p, q) == p[1] < q[1] \/ (p[1] = q[1] /\ p[2] < q[2])
        Pairs(some) == UNION {{<<j, k>> : k \in 1..Len(some[j])} : j \in 1..Len(some)}
        Firsts(some, pairs) ==
            {p \in pairs : \A q \in pairs :
                some[q[1]][q[2]].e = some[p[1]][p[2]].e => ~Before(q, p)}
        At(some, p) == some[p[1]][p[2]]
        InOrder(some, firsts) ==
            [n \in 1..Cardinality(firsts) |->
                At(some, CHOOSE p \in firsts : Cardinality({q \in firsts : Before(q, p)}) + 1 = n)]
        Kept(some) ==
            IF Len(some) = 0 THEN <<>>
            ELSE IF Len(some) = 1 THEN some[1]
            ELSE InOrder(some, Firsts(some, Pairs(some)))
    IN  Kept(SelectSeq(lists, LAMBDA l : Len(l) > 0))

InSet(r, s, i) == i <= Len(s) /\ ((Ch(s, i) \in r.cs) # r.neg)

\* how many characters of s from i on are of the set r, counting to cap at most
RunLen(r, s, i, cap) ==
    CHOOSE n \in 0..cap : /\ n = cap \/ ~InSet(r, s, i + n)
                          /\ \A j \in 0..(n - 1) : InSet(r, s, i + j)

\* a repeat of a character set: the counts from the longest run down (greedy)
\* or from the least count up (lazy)
MRepSet(r, s, i, g) ==
    LET left == Len(s) - i + 1
        cap == IF r.hi = Inf THEN left ELSE Min(r.hi, left)
        Counts(run) ==
            [j \in 1..Max(run - r.lo + 1, 0) |->
                [e |-> i + (IF r.greedy THEN run - j + 1 ELSE r.lo + j - 1), g |-> g]]
    IN  Counts(RunLen(r.r, s, i, cap))

MatchesStr(lit, s, i) ==
    /\ i + Len(lit) - 1 <= Len(s)
    /\ \A j \in 1..Len(lit) : LowerCh(Ch(s, i + j - 1)) = LowerCh(Ch(lit, j))

RECURSIVE M(_, _, _, _)
RECURSIVE MCat(_, _, _, _)
RECURSIVE MRep(_, _, _, _, _)

\* the elements of a from the k-th on, continuing each of the ways cur
MCat(a, k, s, cur) ==
    IF k > Len(a) \/ Len(cur) = 0 THEN cur
    ELSE MCat(a, k + 1, s, Merge([j \in 1..Len(cur) |-> M(a[k], s, cur[j].e, cur[j].g)]))

\* a repeat of any other node, n rounds done: another round must move on
MRep(r, n, s, i, g) ==
    LET stop == IF n >= r.lo THEN One(i, g) ELSE <<>>
        More(round) ==
            IF Len(round) = 0 THEN <<>>
            ELSE Merge([j \in 1..Len(round) |-> MRep(r, n + 1, s, round[j].e, round[j].g)])
        Both(more) == Merge(IF r.greedy THEN <<more, stop>> ELSE <<stop, more>>)
    IN  Both(More(IF r.hi # Inf /\ n >= r.hi THEN <<>>
                  ELSE SelectSeq(M(r.r, s, i, g), LAMBDA w : w.e > i)))

M(r, s, i, g) ==
    CASE r.t = "set" -> IF InSet(r, s, i) THEN One(i + 1, g) ELSE <<>>
      [] r.t = "str" -> IF MatchesStr(r.s, s, i) THEN One(i + Len(r.s), g) ELSE <<>>
      [] r.t = "cat" -> MCat(r.a, 1, s, One(i, g))
      [] r.t = "alt" -> Merge([j \in 1..Len(r.a) |-> M(r.a[j], s, i, g)])
      [] r.t = "rep" -> IF r.r.t = "set" THEN MRepSet(r, s, i, g) ELSE MRep(r, 0, s, i, g)
      [] r.t = "grp" ->
            LET Set_k(in) ==
                    [j \in 1..Len(in) |->
                        [e |-> in[j].e, g |-> [in[j].g EXCEPT ![r.k] = <<i, in[j].e>>]]]
            IN  Set_k(M(r.r, s, i, g))
      [] r.t = "bol" -> IF i = 1 \/ Ch(s, i - 1) = "\n" THEN One(i, g) ELSE <<>>
      [] r.t = "eol" -> IF i = Len(s) + 1 \/ Ch(s, i) = "\n" THEN One(i, g) ELSE <<>>
      [] r.t = "wordb" -> IF IsWordAt(s, i - 1) # IsWordAt(s, i) THEN One(i, g) ELSE <<>>
      [] r.t = "behind" -> IF i > 1 /\ Ch(s, i - 1) \in r.cs THEN One(i, g) ELSE <<>>

NoMatch == [ok |-> FALSE, b |-> 0, e |-> 0, g |-> NoGroups]

\* the match of r in s at i: the first way
MatchAt(r, s, i) ==
    LET First(ways) ==
            IF Len(ways) = 0 THEN NoMatch
            ELSE [ok |-> TRUE, b |-> i, e |-> ways[1].e, g |-> ways[1].g]
    IN  First(M(r, s, i, NoGroups))

RECURSIVE MayMatch(_, _)
\* FALSE only where some literal part that every match of r holds is not in s
MayMatch(r, s) ==
    CASE r.t = "str" -> \E i \in 1..(Len(s) - Len(r.s) + 1) : MatchesStr(r.s, s, i)
      [] r.t = "cat" -> \A k \in 1..Len(r.a) : MayMatch(r.a[k], s)
      [] r.t = "alt" -> \E k \in 1..Len(r.a) : MayMatch(r.a[k], s)
      [] r.t = "grp" -> MayMatch(r.r, s)
      [] r.t = "rep" -> r.lo = 0 \/ MayMatch(r.r, s)
      [] OTHER -> TRUE

\* re.search(r, s): the match at the leftmost position that has one
Search(r, s) ==
    LET Leftmost(found) ==
            IF found = {} THEN NoMatch ELSE CHOOSE m \in found : \A o \in found : m.b <= o.b
    IN  IF MayMatch(r, s)
        THEN Leftmost({m \in {MatchAt(r, s, i) : i \in 1..(Len(s) + 1)} : m.ok})
        ELSE NoMatch

\* re.match(r, s): a match at the start of s
Match(r, s) == MatchAt(r, s, 1)

\* m.group(0)
Group0(s, m) == SubSeq(s, m.b, m.e - 1)
\* m.group(k): None for a group that took no part in the match
Group(s, m, k) == IF m.g[k] = <<0, 0>> THEN None ELSE SubSeq(s, m.g[k][1], m.g[k][2] - 1)

RECURSIVE SubFrom(_, _, _, _, _)
\* the scan of re.sub from position i over the positions up to j: what it puts
\* out, and the position it goes on from (past j where a match ends there)
SubFrom(r, repl, s, i, j) ==
    LET Rest(m) == IF m.ok /\ m.e > i THEN <<repl, m.e>> ELSE <<Ch(s, i), i + 1>>
        Put(left, right) == <<left[1] \o right[1], right[2]>>
        Then(left) == Put(left, SubFrom(r, repl, s, left[2], j))
    IN  IF i > j THEN <<"", i>>
        ELSE IF i = j THEN Rest(MatchAt(r, s, i))
        ELSE Then(SubFrom(r, repl, s, i, (i + j) \div 2))

\* re.sub(r, repl, s) for a pattern that matches no empty string
ReSub(r, repl, s) == SubFrom(r, repl, s, 1, Len(s))[1]

(***************************************************************************)
(* str methods                                                             *)
(***************************************************************************)
RECURSIVE ReplaceFrom(_, _, _, _, _)
\* s[i..j] with every c replaced by new
ReplaceFrom(s, c, new, i, j) ==
    IF i > j THEN ""
    ELSE IF i = j THEN (IF Ch(s, i) = c THEN new ELSE Ch(s, i))
    ELSE ReplaceFrom(s, c, new, i, (i + j) \div 2)
         \o ReplaceFrom(s, c, new, (i + j) \div 2 + 1, j)

\* s.replace(c, new) for a one-character c
Replace(s, c, new) == ReplaceFrom(s, c, new, 1, Len(s))

RECURSIVE LStrip(_, _)
\* s.lstrip(cs)
LStrip(s, cs) ==
    IF Len(s) > 0 /\ Ch(s, 1) \in cs THEN LStrip(SubSeq(s, 2, Len(s)), cs) ELSE s

RECURSIVE RStrip(_, _)
RStrip(s, cs) ==
    IF Len(s) > 0 /\ Ch(s, Len(s)) \in cs THEN RStrip(SubSeq(s, 1, Len(s) - 1), cs) ELSE s

\* s.strip()
strip(s) == RStrip(LStrip(s, Space), Space)

\* s.isdigit()
isdigit(s) == Len(s) > 0 /\ \A i \in 1..Len(s) : Ch(s, i) \in Digit

RECURSIVE CollapseFrom(_, _, _)
\* " ".join(s.split()) of a stripped s, for its part s[i..j]
CollapseFrom(s, i, j) ==
    IF i > j THEN ""
    ELSE IF i = j
         THEN (IF Ch(s, i) \in Space
               THEN (IF Ch(s, i - 1) \in Space THEN "" ELSE " ")
               ELSE Ch(s, i))
         ELSE CollapseFrom(s, i, (i + j) \div 2) \o CollapseFrom(s, (i + j) \div 2 + 1, j)

_clean_whitespace(s) ==
    IF s = None \/ s = "" THEN s ELSE CollapseFrom(strip(s), 1, Len(strip(s)))

_safe(value) == IF value # None /\ value # "" THEN value ELSE "N/A"

(***************************************************************************)
(* normalize_number                                                        *)
(***************************************************************************)
\* (?i)kshs\.?
P_kshs == Cat(<<Str("kshs"), Opt(Lit("."))>>)
\* [/=]
P_slash_eq == Set({"/", "="})
\* [^0-9\.,]
P_not_num == NotSet(Digit \cup {".", ","})

\* normalize_number without the removal of leading zeros
normalize_number_keeps_zeros(raw) ==
    IF raw = None \/ raw = "" \/ raw = "N/A" THEN "N/A"
    ELSE LET s4 == Replace(Replace(ReSub(P_not_num, "", ReSub(P_slash_eq, "",
                       ReSub(P_kshs, "", raw))), ",", ""), ".", "")
             Checked(s) == IF s = "" \/ ~isdigit(s) THEN "N/A" ELSE s
         IN  Checked(s4)

normalize_number(raw) ==
    IF raw = None \/ raw = "" \/ raw = "N/A" THEN "N/A"
    ELSE LET s1 == ReSub(P_kshs, "", raw)
             s2 == ReSub(P_slash_eq, "", s1)
             s3 == ReSub(P_not_num, "", s2)
             s4 == Replace(Replace(s3, ",", ""), ".", "")
             Or0(stripped) == IF stripped = "" THEN "0" ELSE stripped
             Checked(s, s5) == IF s = "" THEN "N/A"
                               ELSE IF ~isdigit(s5) THEN "N/A"
                               ELSE s5
             Stripped(s) == Checked(s, Or0(LStrip(s, {"0"})))
         IN  Stripped(s4)

(***************************************************************************)
(* Numbers and calendar dates                                              *)
(***************************************************************************)
DigitVal(c) == CHOOSE n \in 0..9 : Ch("0123456789", n + 1) = c

RECURSIVE ToInt(_)
\* int(s) of a string of digits, leading spaces allowed; 0 for the empty string
ToInt(s) ==
    IF Len(s) = 0 THEN 0
    ELSE IF Ch(s, 1) = " " THEN ToInt(SubSeq(s, 2, Len(s)))
    ELSE ToInt(SubSeq(s, 1, Len(s) - 1)) * 10 + DigitVal(Ch(s, Len(s)))

RECURSIVE IntToStr(_)
\* str(n) of n >= 0
IntToStr(n) ==
    IF n < 10 THEN Ch("0123456789", n + 1)
    ELSE IntToStr(n \div 10) \o Ch("0123456789", (n % 10) + 1)

RECURSIVE Pad(_, _)
\* s left-padded with zeros to the width w
Pad(s, w) == IF Len(s) >= w THEN s ELSE Pad("0" \o s, w)

IsLeap(y) == (y % 4 = 0 /\ y % 100 # 0) \/ y % 400 = 0
DaysIn(y, m) ==
    IF m = 2 THEN (IF IsLeap(y) THEN 29 ELSE 28)
    ELSE IF m \in {4, 6, 9, 11} THEN 30 ELSE 31

\* _strptime's month tables (the C locale), in the order its regex tries them
FullMonths == <<"september", "february", "november", "december", "january", "october",
                "august", "march", "april", "june", "july", "may">>
AbbrMonths == <<"jan", "feb", "mar", "apr", "may", "jun", "jul", "aug", "sep", "oct",
                "nov", "dec">>
MonthNumber == [n \in {"january", "jan"} |-> 1] @@ [n \in {"february", "feb"} |-> 2]
            @@ [n \in {"march", "mar"} |-> 3] @@ [n \in {"april", "apr"} |-> 4]
            @@ [n \in {"may"} |-> 5] @@ [n \in {"june", "jun"} |-> 6]
            @@ [n \in {"july", "jul"} |-> 7] @@ [n \in {"august", "aug"} |-> 8]
            @@ [n \in {"september", "sep"} |-> 9] @@ [n \in {"october", "oct"} |-> 10]
            @@ [n \in {"november", "nov"} |-> 11] @@ [n \in {"december", "dec"} |-> 12]

\* the directives of strptime as regular expressions; group 1 is the day,
\* group 2 the month, group 3 the year
\* %d: 3[0-1]|[1-2]\d|0[1-9]|[1-9]| [1-9]
D_d == Grp(1, Alt(<<Cat(<<Lit("3"), Set(CharsOf("01"))>>),
                    Cat(<<Set(CharsOf("12")), Set(Digit)>>),
                    Cat(<<Lit("0"), Set(Digit \ {"0"})>>),
                    Set(Digit \ {"0"}),
                    Cat(<<Lit(" "), Set(Digit \ {"0"})>>)>>))
\* %m: 1[0-2]|0[1-9]|[1-9]
D_m == Grp(2, Alt(<<Cat(<<Lit("1"), Set(CharsOf("012"))>>),
                    Cat(<<Lit("0"), Set(Digit \ {"0"})>>),
                    Set(Digit \ {"0"})>>))
D_B == Grp(2, Alt([i \in 1..12 |-> Str(FullMonths[i])]))
D_b == Grp(2, Alt([i \in 1..12 |-> Str(AbbrMonths[i])]))
\* %Y: \d\d\d\d    %y: \d\d
D_Y == Grp(3, Rep(Set(Digit), 4, 4))
D_y == Grp(3, Rep(Set(Digit), 2, 2))
\* white space in a format: \s+
D_ws == Plus(Set(Space))

\* fmts = ["%d %B %Y", "%d %b %Y", "%d/%m/%Y", "%d-%m-%Y", "%d/%m/%y", "%B %d %Y", "%b %d %Y"]
fmts == <<
    [re |-> Cat(<<D_d, D_ws, D_B, D_ws, D_Y>>), names |-> TRUE, yy |-> FALSE],
    [re |-> Cat(<<D_d, D_ws, D_b, D_ws, D_Y>>), names |-> TRUE, yy |-> FALSE],
    [re |-> Cat(<<D_d, Lit("/"), D_m, Lit("/"), D_Y>>), names |-> FALSE, yy |-> FALSE],
    [re |-> Cat(<<D_d, Lit("-"), D_m, Lit("-"), D_Y>>), names |-> FALSE, yy |-> FALSE],
    [re |-> Cat(<<D_d, Lit("/"), D_m, Lit("/"), D_y>>), names |-> FALSE, yy |-> TRUE],
    [re |-> Cat(<<D_B, D_ws, D_d, D_ws, D_Y>>), names |-> TRUE, yy |-> FALSE],
    [re |-> Cat(<<D_b, D_ws, D_d, D_ws, D_Y>>), names |-> TRUE, yy |-> FALSE] >>

\* datetime.strptime(s, f): the date, or ok = FALSE where Python raises ValueError
\* (no match, unconverted data, a day the month does not have, the year 0)
strptime(s, f) ==
    LET bad == [ok |-> FALSE, y |-> 0, m |-> 0, d |-> 0]
        Date(d, mon, y) ==
            IF y < 1 \/ d > DaysIn(y, mon) THEN bad ELSE [ok |-> TRUE, y |-> y, m |-> mon, d |-> d]
        Month(name) == IF f.names THEN MonthNumber[lower(name)] ELSE ToInt(name)
        Year(y0) == IF f.yy THEN (IF y0 <= 68 THEN y0 + 2000 ELSE y0 + 1900) ELSE y0
        Fields(m) ==
            IF ~m.ok \/ m.e # Len(s) + 1 THEN bad
            ELSE Date(ToInt(Group(s, m, 1)), Month(Group(s, m, 2)), Year(ToInt(Group(s, m, 3))))
    IN  Fields(Match(f.re, s))

\* dt.strftime("%Y-%m-%d"); the C library prints the year as it is, unpadded
strftime(dt) ==
    IntToStr(dt.y) \o "-" \o Pad(IntToStr(dt.m), 2) \o "-" \o Pad(IntToStr(dt.d), 2)

(***************************************************************************)
(* fuzzy_date_search                                                       *)
(***************************************************************************)
\* (\d{1,2}\s*(?:st|nd|rd|th|%|º|o)?\s*[,\s\-\/\.]?\s*[A-Za-z]{3,9}\s*[,\s\-\/\.]?\s*\d{4})
P_date_dmy == Grp(1, Cat(<<Rep(Set(Digit), 1, 2), Star(Set(Space)),
    Opt(Alt(<<Str("st"), Str("nd"), Str("rd"), Str("th"), Lit("%"), Lit("º"), Lit("o")>>)),
    Star(Set(Space)), Opt(Set(Space \cup CharsOf(",-/."))), Star(Set(Space)),
    Rep(Set(Letter), 3, 9), Star(Set(Space)), Opt(Set(Space \cup CharsOf(",-/."))),
    Star(Set(Space)), Rep(Set(Digit), 4, 4)>>))
\* (\d{1,2}[\/\-]\d{1,2}[\/\-]\d{2,4})
P_date_num == Grp(1, Cat(<<Rep(Set(Digit), 1, 2), Set(CharsOf("/-")), Rep(Set(Digit), 1, 2),
    Set(CharsOf("/-")), Rep(Set(Digit), 2, 4)>>))
\* ([A-Za-z]{3,9}\s*\d{1,2}[,\s\-\/\.]?\s*\d{4})
P_date_mdy == Grp(1, Cat(<<Rep(Set(Letter), 3, 9), Star(Set(Space)), Rep(Set(Digit), 1, 2),
    Opt(Set(Space \cup CharsOf(",-/."))), Star(Set(Space)), Rep(Set(Digit), 4, 4)>>))
date_patterns == <<P_date_dmy, P_date_num, P_date_mdy>>
\* (?<=\d)(?:st|nd|rd|th)
P_ordinal == Cat(<<Behind(Digit), Alt(<<Str("st"), Str("nd"), Str("rd"), Str("th")>>)>>)

\* candidate_clean of a candidate
CandidateClean(candidate) ==
    ReSub(P_ordinal, "", Replace(Replace(candidate, "%", "th"), "º", "th"))

RECURSIVE TryFormats(_, _)
\* the loop over fmts from the k-th on: the first format that parses, else the
\* cleaned candidate (no format parses the empty candidate)
TryFormats(candidate_clean, k) ==
    IF candidate_clean = "" \/ k > Len(fmts) THEN _clean_whitespace(candidate_clean)
    ELSE LET Parsed(dt) == IF dt.ok THEN strftime(dt) ELSE TryFormats(candidate_clean, k + 1)
         IN  Parsed(strptime(strip(candidate_clean), fmts[k]))

\* the loop over patterns with the numeric shape tried before the others
TryPatterns_numeric_first(text, k) ==
    LET order == <<2, 1, 3>>
        First(found) ==
            IF found = {} THEN "N/A"
            ELSE TryFormats(CandidateClean(Group(text,
                     (CHOOSE h \in found : \A o \in found : h[1] <= o[1])[2], 1)), 1)
    IN  First({h \in {<<j, Search(date_patterns[order[j]], text)>> : j \in k..3} : h[2].ok})

RECURSIVE TryPatterns(_, _)
\* the loop over patterns from the k-th on
TryPatterns(text, k) ==
    IF k > Len(date_patterns) THEN "N/A"
    ELSE LET Found(m) == IF m.ok THEN TryFormats(CandidateClean(Group(text, m, 1)), 1)
                         ELSE TryPatterns(text, k + 1)
         IN  Found(Search(date_patterns[k], text))

fuzzy_date_search(text) ==
    IF text = None \/ text = "" THEN "N/A" ELSE TryPatterns(text, 1)

(***************************************************************************)
(* find_first                                                              *)
(***************************************************************************)
\* a pattern of the program: its source text and the expression it compiles to
Pat(src, re) == [isstr |-> TRUE, valid |-> TRUE, src |-> src, re |-> re]

\* as FirstGroup, but a group of nothing but white space is taken as well
FirstGroup_with_blank_group(text, m) ==
    LET Useful(g) == g # None /\ g # ""
        First(useful) ==
            IF useful = {} THEN Group0(text, m)
            ELSE Group(text, m, CHOOSE k \in useful : \A j \in useful : k <= j)
    IN  _clean_whitespace(First({k \in 1..NGroups : Useful(Group(text, m, k))}))

\* the value find_first returns for the match m: the first group that is
\* neither None nor blank, else the whole match (m.groups() holds the groups
\* of the pattern; the groups a pattern does not have are None here)
FirstGroup(text, m) ==
    LET Useful(g) == g # None /\ g # "" /\ strip(g) # ""
        First(useful) ==
            IF useful = {} THEN Group0(text, m)
            ELSE Group(text, m, CHOOSE k \in useful : \A j \in useful : k <= j)
    IN  _clean_whitespace(First({k \in 1..NGroups : Useful(Group(text, m, k))}))

\* the loop over sanitized with a later match taking the place of an earlier one
FindFrom_last_match(sanitized, k, text) ==
    LET Last(found) ==
            IF found = {} THEN "N/A"
            ELSE FirstGroup(text, (CHOOSE h \in found : \A o \in found : o[1] <= h[1])[2])
    IN  Last({h \in {<<j, Search(sanitized[j].re, text)>> :
                        j \in {i \in k..Len(sanitized) : sanitized[i].valid}} : h[2].ok})

\* the loop over sanitized with a pattern that does not compile ending the
\* search
FindFrom_aborting(sanitized, k, text) ==
    LET Upto(bad) == IF bad = {} THEN Len(sanitized)
                     ELSE (CHOOSE b \in bad : \A o \in bad : b <= o) - 1
        First(found) ==
            IF found = {} THEN "N/A"
            ELSE FirstGroup(text, (CHOOSE h \in found : \A o \in found : h[1] <= o[1])[2])
        Within(last) == First({h \in {<<j, Search(sanitized[j].re, text)>> : j \in k..last} : h[2].ok})
    IN  Within(Upto({i \in k..Len(sanitized) : ~sanitized[i].valid}))

RECURSIVE FindFrom(_, _, _)
\* the loop over sanitized from the k-th pattern on; re.error skips a pattern
FindFrom(sanitized, k, text) ==
    IF k > Len(sanitized) THEN "N/A"
    ELSE IF ~sanitized[k].valid THEN FindFrom(sanitized, k + 1, text)
    ELSE LET Found(m) == IF m.ok THEN FirstGroup(text, m) ELSE FindFrom(sanitized, k + 1, text)
         IN  Found(Search(sanitized[k].re, text))

\* patterns is [list |-> TRUE, v |-> a sequence of entries], or
\* [list |-> FALSE, v |-> one entry] for an argument that is no list
find_first(patterns, text) ==
    IF text = None \/ text = "" THEN "N/A"
    ELSE LET plist == IF patterns.list THEN patterns.v ELSE <<patterns.v>>
             sanitized == SelectSeq(plist, LAMBDA p : p.isstr /\ p.src # text)
         IN  FindFrom(sanitized, 1, text)

\* a list literal of patterns
List(ps) == [list |-> TRUE, v |-> ps]

(***************************************************************************)
(* float() and the format .6f                                              *)
(***************************************************************************)
RECURSIVE Pow10(_)
Pow10(n) == IF n = 0 THEN 1 ELSE 10 * Pow10(n - 1)

\* the number of the character c in s
Count(s, c) == Cardinality({i \in 1..Len(s) : Ch(s, i) = c})

\* float(s) of a string of digits and dots: the value is num / 10^scale;
\* ok = FALSE where Python raises ValueError
float(s) ==
    LET digits == Replace(s, ".", "")
        dot == IF Count(s, ".") = 1 THEN CHOOSE i \in 1..Len(s) : Ch(s, i) = "." ELSE Len(s) + 1
    IN  IF Count(s, ".") > 1 \/ digits = "" THEN [ok |-> FALSE, num |-> 0, scale |-> 0]
        ELSE [ok |-> TRUE, num |-> ToInt(digits), scale |-> Max(Len(s) - dot, 0)]

RECURSIVE Frac(_, _, _)
\* n decimal digits of r / d for r < d, and the remainder left
Frac(r, d, n) ==
    IF n = 0 THEN [q |-> 0, r |-> r]
    ELSE LET p == Frac(r, d, n - 1)
         IN  [q |-> p.q * 10 + (p.r * 10) \div d, r |-> (p.r * 10) % d]

\* f"{n / d:.6f}" of n >= 0, d > 0: rounded to the nearest millionth.  (Where the
\* quotient lies exactly between two millionths Python rounds by the binary
\* value of the float; no such quotient arises from seconds of at most two
\* decimals, and the specifications below give the area operators none.)
Format6(n, d) ==
    LET f == Frac(n % d, d, 6)
        q == f.q + (IF 2 * f.r >= d THEN 1 ELSE 0)
    IN  IntToStr(n \div d + q \div 1000000) \o "." \o Pad(IntToStr(q % 1000000), 6)

(***************************************************************************)
(* extract_coordinates                                                     *)
(***************************************************************************)
P_dec_match ==
    Pat("(-?\\d{1,3}\\.\\d+)\\s*[,;\\s]\\s*(-?\\d{1,3}\\.\\d+)",
        Cat(<<Grp(1, Cat(<<Opt(Lit("-")), Rep(Set(Digit), 1, 3), Lit("."), Plus(Set(Digit))>>)),
        Star(Set(Space)), Set(Space \cup CharsOf(",;")), Star(Set(Space)), Grp(2,
        Cat(<<Opt(Lit("-")), Rep(Set(Digit), 1, 3), Lit("."), Plus(Set(Digit))>>))>>))
dms_pattern ==
    Pat("(\\d{1,3})[°\\s]\\s*(\\d{1,2})['\\s]?\\s*([\\d\\.]+)\\\"?\\s*([NS])?.*?(\\d{1,3})[°\\s]\\s*(\\d{1,2})['\\s]?\\s*([\\d\\.]+)\\\"?\\s*([EW])?",
        Cat(<<Grp(1, Rep(Set(Digit), 1, 3)), Set(Space \cup {"°"}), Star(Set(Space)), Grp(2,
        Rep(Set(Digit), 1, 2)), Opt(Set(Space \cup {"'"})), Star(Set(Space)), Grp(3,
        Plus(Set(Digit \cup {"."}))), Opt(Lit("\"")), Star(Set(Space)), Opt(Grp(4,
        Set(CharsOf("nNsS")))), Lazy(AnyCh, 0, Inf), Grp(5, Rep(Set(Digit), 1, 3)),
        Set(Space \cup {"°"}), Star(Set(Space)), Grp(6, Rep(Set(Digit), 1, 2)),
        Opt(Set(Space \cup {"'"})), Star(Set(Space)), Grp(7, Plus(Set(Digit \cup {"."}))),
        Opt(Lit("\"")), Star(Set(Space)), Opt(Grp(8, Set(CharsOf("eEwW"))))>>))

\* deg + min/60.0 + sec/3600.0 as the fraction n / d
DmsValue(deg, min, sec) ==
    [n |-> (deg.num * 3600 + min.num * 60) * Pow10(sec.scale) + sec.num,
     d |-> 3600 * Pow10(sec.scale)]

\* f"{v:.6f}" of the axis, negated when neg
DmsAxis(deg, min, sec, neg) ==
    LET v == DmsValue(deg, min, sec)
    IN  (IF neg THEN "-" ELSE "") \o Format6(v.n, v.d)

extract_coordinates(text0) ==
    IF text0 = None \/ text0 = "" THEN <<"N/A", "N/A">>
    ELSE LET Or(dir, default) == IF dir \in {None, ""} THEN default ELSE dir
             Axes(lat_deg, lat_min, lat_sec, lat_dir, lon_deg, lon_min, lon_sec, lon_dir) ==
                 IF \E x \in {lat_deg, lat_min, lat_sec, lon_deg, lon_min, lon_sec} : ~x.ok
                 THEN <<"N/A", "N/A">>
                 ELSE <<DmsAxis(lat_deg, lat_min, lat_sec, UpperCh(Ch(lat_dir, 1)) = "S"),
                        DmsAxis(lon_deg, lon_min, lon_sec, UpperCh(Ch(lon_dir, 1)) = "W")>>
             Dms(text, m) ==
                 IF ~m.ok THEN <<"N/A", "N/A">>
                 ELSE Axes(float(Group(text, m, 1)), float(Group(text, m, 2)),
                           float(Group(text, m, 3)), Or(Group(text, m, 4), "S"),
                           float(Group(text, m, 5)), float(Group(text, m, 6)),
                           float(Group(text, m, 7)), Or(Group(text, m, 8), "E"))
             Decimal(text, dec_match) ==
                 IF dec_match.ok THEN <<Group(text, dec_match, 1), Group(text, dec_match, 2)>>
                 ELSE Dms(text, Search(dms_pattern.re, text))
             In(text) == Decimal(text, Search(P_dec_match.re, text))
         IN  In(strip(text0))

(***************************************************************************)
(* extract_plot_area                                                       *)
(***************************************************************************)
P_m_ha ==
    Pat("([\\d\\.]+)\\s*(?:hectares|hectare|ha)\\b",
        Cat(<<Grp(1, Plus(Set(Digit \cup {"."}))), Star(Set(Space)), Alt(<<Str("hectares"),
        Str("hectare"), Str("ha")>>), WordB>>))
P_m_ac ==
    Pat("([\\d\\.]+)\\s*(?:acres|acre)\\b",
        Cat(<<Grp(1, Plus(Set(Digit \cup {"."}))), Star(Set(Space)), Alt(<<Str("acres"),
        Str("acre")>>), WordB>>))

\* the conversion factor 0.404686 in millionths
AcreInHa == 404686

\* an exception that leaves the function it was raised in
Raised == <<"<raised>">>

\* the body of the try: the unit that is missing derived from the other one;
\* Raised where float() raises
ConvertPlotArea(ha, ac) ==
    LET Fraction(unit, n, d) == IF unit = "ha" THEN <<Format6(n, d), ac>> ELSE <<ha, Format6(n, d)>>
        \* float(ac) * 0.404686 and float(ha) / 0.404686
        Converted(unit, v) ==
            IF ~v.ok THEN Raised
            ELSE IF unit = "ha" THEN Fraction(unit, v.num * AcreInHa, 1000000 * Pow10(v.scale))
            ELSE Fraction(unit, v.num * Pow10(Max(6 - v.scale, 0)),
                          AcreInHa * Pow10(Max(v.scale - 6, 0)))
    IN  IF ha = "N/A" /\ ac # "N/A" THEN Converted("ha", float(ac))
        ELSE IF ac = "N/A" /\ ha # "N/A" THEN Converted("ac", float(ha))
        ELSE <<ha, ac>>

\* extract_plot_area with the conversion outside any try
extract_plot_area_unguarded(text) ==
    IF text = None \/ text = "" THEN <<"N/A", "N/A">>
    ELSE LET Figure(m) == IF m.ok THEN Group(text, m, 1) ELSE "N/A"
         IN  ConvertPlotArea(Figure(Search(P_m_ha.re, text)), Figure(Search(P_m_ac.re, text)))

extract_plot_area(text) ==
    IF text = None \/ text = "" THEN <<"N/A", "N/A">>
    ELSE LET Figure(m) == IF m.ok THEN Group(text, m, 1) ELSE "N/A"
             \* except Exception: pass
             Tried(ha, ac, converted) == IF converted = Raised THEN <<ha, ac>> ELSE converted
             Try(ha, ac) == Tried(ha, ac, ConvertPlotArea(ha, ac))
         IN  Try(Figure(Search(P_m_ha.re, text)), Figure(Search(P_m_ac.re, text)))

(***************************************************************************)
(* extract_bedrooms, extract_parking, extract_valuer                       *)
(***************************************************************************)
P_bedrooms_m ==
    Pat("(\\b\\d{1,2}\\b)\\s*(?:-)?\\s*(?:bedroom|bedrooms|bedroomed)\\b",
        Cat(<<Grp(1, Cat(<<WordB, Rep(Set(Digit), 1, 2), WordB>>)), Star(Set(Space)),
        Opt(Lit("-")), Star(Set(Space)), Alt(<<Str("bedroom"), Str("bedrooms"),
        Str("bedroomed")>>), WordB>>))
P_bedrooms_m2 ==
    Pat("\\b(one|two|three|four|five|six|seven|eight|nine|ten)\\b\\s*(?:-)?\\s*(?:bedroom|bedrooms|bedroomed)\\b",
        Cat(<<WordB, Grp(1, Alt(<<Str("one"), Str("two"), Str("three"), Str("four"), Str("five"),
        Str("six"), Str("seven"), Str("eight"), Str("nine"), Str("ten")>>)), WordB,
        Star(Set(Space)), Opt(Lit("-")), Star(Set(Space)), Alt(<<Str("bedroom"), Str("bedrooms"),
        Str("bedroomed")>>), WordB>>))
P_master ==
    Pat("master.*en-?suite|master\\s+en[-\\s]?suite|en-?suite\\s+master",
        Alt(<<Cat(<<Str("master"), Star(AnyCh), Str("en"), Opt(Lit("-")), Str("suite")>>),
        Cat(<<Str("master"), Plus(Set(Space)), Str("en"), Opt(Set(Space \cup {"-"})),
        Str("suite")>>), Cat(<<Str("en"), Opt(Lit("-")), Str("suite"), Plus(Set(Space)),
        Str("master")>>)>>))

words_to_nums ==
    [w \in {"one", "two", "three", "four", "five", "six", "seven", "eight", "nine", "ten"} |->
        CASE w = "one" -> "1" [] w = "two" -> "2" [] w = "three" -> "3" [] w = "four" -> "4"
          [] w = "five" -> "5" [] w = "six" -> "6" [] w = "seven" -> "7" [] w = "eight" -> "8"
          [] w = "nine" -> "9" [] w = "ten" -> "10"]

\* d.get(key, "N/A")
DictGet(d, key) == IF key \in DOMAIN d THEN d[key] ELSE "N/A"

extract_bedrooms(text) ==
    IF text = None \/ text = "" THEN <<"N/A", "No">>
    ELSE LET InWords(m2) ==
                 IF m2.ok THEN DictGet(words_to_nums, lower(Group(text, m2, 1))) ELSE "N/A"
             Bedrooms(m) ==
                 IF m.ok THEN Group(text, m, 1) ELSE InWords(Search(P_bedrooms_m2.re, text))
             master == IF Search(P_master.re, text).ok THEN "Yes" ELSE "No"
         IN  <<_safe(Bedrooms(Search(P_bedrooms_m.re, text))), master>>

P_parking_m ==
    Pat("(\\d{1,2})\\s*(?:No\\.?|nos\\.?|parking|parking lots|parking spaces|car spaces|car park)\\b",
        Cat(<<Grp(1, Rep(Set(Digit), 1, 2)), Star(Set(Space)), Alt(<<Cat(<<Str("No"),
        Opt(Lit("."))>>), Cat(<<Str("nos"), Opt(Lit("."))>>), Str("parking"),
        Str("parking lots"), Str("parking spaces"), Str("car spaces"), Str("car park")>>),
        WordB>>))
P_parking_m2 ==
    Pat("\\b(one|two|three|four|five)\\b\\s*(?:parking|car space|car spaces|parking lots)\\b",
        Cat(<<WordB, Grp(1, Alt(<<Str("one"), Str("two"), Str("three"), Str("four"),
        Str("five")>>)), WordB, Star(Set(Space)), Alt(<<Str("parking"), Str("car space"),
        Str("car spaces"), Str("parking lots")>>), WordB>>))

parking_words ==
    [w \in {"one", "two", "three", "four", "five"} |-> words_to_nums[w]]

extract_parking(text) ==
    IF text = None \/ text = "" THEN "N/A"
    ELSE LET InWords(m2) ==
                 IF m2.ok THEN DictGet(parking_words, lower(Group(text, m2, 1))) ELSE "N/A"
             Parking(m) ==
                 IF m.ok THEN Group(text, m, 1) ELSE InWords(Search(P_parking_m2.re, text))
         IN  Parking(Search(P_parking_m.re, text))

P_m_comp ==
    Pat("For and on behalf of\\s*([A-Za-z0-9 &\\.\\-]+(?:Limited|Ltd|Company))",
        Cat(<<Str("For and on behalf of"), Star(Set(Space)), Grp(1,
        Cat(<<Plus(Set(Letter \cup Digit \cup CharsOf(" &.-"))), Alt(<<Str("Limited"),
        Str("Ltd"), Str("Company")>>)>>))>>))
P_m_sign ==
    Pat("\\n\\s*([A-Z][A-Za-z\\s\\.\\-]{3,60})\\s*\\n\\s*([A-Za-z0-9\\(\\)\\.,\\s]{2,80}(?:Hon|Hons|BA|BSc|B\\.A|B\\.Sc|Bachelor|Registered|MIS|GMISK))",
        Cat(<<Lit("\n"), Star(Set(Space)), Grp(1, Cat(<<Set(Letter),
        Rep(Set(Letter \cup Space \cup CharsOf(".-")), 3, 60)>>)), Star(Set(Space)), Lit("\n"),
        Star(Set(Space)), Grp(2,
        Cat(<<Rep(Set(Letter \cup Digit \cup Space \cup CharsOf("().,")), 2, 80),
        Alt(<<Str("Hon"), Str("Hons"), Str("BA"), Str("BSc"), Str("B.A"), Str("B.Sc"),
        Str("Bachelor"), Str("Registered"), Str("MIS"), Str("GMISK")>>)>>))>>))
P_valuer_m2 ==
    Pat("Registered & Practicing Valuer\\s*[\\r\\n]+([A-Z][A-Za-z\\s\\.\\-]{3,60})",
        Cat(<<Str("Registered & Practicing Valuer"), Star(Set(Space)),
        Plus(Set(CharsOf("\r\n"))), Grp(1, Cat(<<Set(Letter),
        Rep(Set(Letter \cup Space \cup CharsOf(".-")), 3, 60)>>))>>))
P_mq ==
    Pat("([A-Z][A-Za-z\\s\\.\\-]{3,60})\\s*[,;\\-]?\\s*(BA|B\\.A|BSc|B\\.Sc|Bachelor of Real Estate|Hons|MIS|GMISK|MISK)",
        Cat(<<Grp(1, Cat(<<Set(Letter), Rep(Set(Letter \cup Space \cup CharsOf(".-")), 3,
        60)>>)), Star(Set(Space)), Opt(Set(CharsOf(",;-"))), Star(Set(Space)), Grp(2,
        Alt(<<Str("BA"), Str("B.A"), Str("BSc"), Str("B.Sc"), Str("Bachelor of Real Estate"),
        Str("Hons"), Str("MIS"), Str("GMISK"), Str("MISK")>>))>>))

\* the result is <<name, quals, company>>
extract_valuer(text) ==
    IF text = None \/ text = "" THEN <<"N/A", "N/A", "N/A">>
    ELSE LET Cleaned(m, k, default) ==
                 IF m.ok THEN _clean_whitespace(Group(text, m, k)) ELSE default
             \* name and quals after the fallback patterns m2 and mq
             Fallback(m2, mq) ==
                 <<Cleaned(mq, 1, Cleaned(m2, 1, "N/A")), Cleaned(mq, 2, "N/A")>>
             NameQuals(m_sign) ==
                 IF m_sign.ok THEN <<Cleaned(m_sign, 1, "N/A"), Cleaned(m_sign, 2, "N/A")>>
                 ELSE Fallback(Search(P_valuer_m2.re, text), Search(P_mq.re, text))
             Result(pair, company) == <<_safe(pair[1]), _safe(pair[2]), _safe(company)>>
         IN  Result(NameQuals(Search(P_m_sign.re, text)),
                    Cleaned(Search(P_m_comp.re, text), 1, "N/A"))

(***************************************************************************)
(* config.COLUMN_HEADERS                                                   *)
(***************************************************************************)
COLUMN_HEADERS ==
    <<"FileName", "Our_Ref", "Valuer_Name", "Valuer_Qualifications", "Valuer_Company",
      "Market_Value_Kshs", "Insurance_Value_Kshs", "Forced_Sale_Value_Kshs",
      "Open_Market_Rental_Value_Kshs", "Valuation_Date", "Inspection_Date",
      "Lease_Start_Date", "Transfer_Date", "Consent_To_Transfer_Date", "LR_No", "IR_No",
      "Title_No", "Apartment_No", "Unit_Type", "Block", "Floor_Level", "Estate_Name",
      "County", "Area_Neighborhood", "Road_Access_Description", "Distance_To_Landmark",
      "Google_Coordinates_Lat", "Google_Coordinates_Lon", "Built_Up_Area_SqFt",
      "Plot_Area_Ha", "Plot_Area_Acres", "Bedrooms", "Master_EnSuite", "Parking_Spaces",
      "Balcony_Present", "Accommodation_Summary", "Condition", "Occupancy_Status",
      "Internal_Finishes", "Tenure", "Lease_Term_Remaining", "Encumbrances",
      "Registered_Proprietor", "Page_Count", "Notes">>

(***************************************************************************)
(* extract_data_points                                                     *)
(***************************************************************************)
\* os.path.basename(p)
RECURSIVE basename(_)
basename(p) ==
    IF \E i \in 1..Len(p) : Ch(p, i) = "/"
    THEN basename(SubSeq(p, (CHOOSE i \in 1..Len(p) : Ch(p, i) = "/") + 1, Len(p)))
    ELSE p

\* sub in s
Contains(s, sub) == \E i \in 1..(Len(s) - Len(sub) + 1) : SubSeq(s, i, i + Len(sub) - 1) = sub

RECURSIVE CountFrom(_, _, _)
\* s.count(sub): the occurrences from i on that do not overlap
CountFrom(s, sub, i) ==
    LET At(j) == SubSeq(s, j, j + Len(sub) - 1) = sub
        After(hits) ==
            IF hits = {} THEN 0
            ELSE 1 + CountFrom(s, sub, (CHOOSE j \in hits : \A k \in hits : j <= k) + Len(sub))
    IN  After({j \in i..(Len(s) - Len(sub) + 1) : At(j)})

RECURSIVE Join(_, _)
\* sep.join(items)
Join(sep, items) ==
    IF Len(items) = 0 THEN ""
    ELSE IF Len(items) = 1 THEN items[1]
    ELSE items[1] \o sep \o Join(sep, Tail(items))

\* s.title() of a string of letters
title(s) == IF s = "" THEN "" ELSE UpperCh(Ch(s, 1)) \o lower(SubSeq(s, 2, Len(s)))

\* a dict is the sequence of its <<key, value>> items in insertion order
DictKeys(data) == [i \in 1..Len(data) |-> data[i][1]]
DictItem(data, k) == data[CHOOSE i \in 1..Len(data) : data[i][1] = k][2]

\* as SetItems, but an assigned key of data leaves its place and goes to the end
SetItems_moving_keys(data, items) ==
    LET Assigned(k) == \E j \in 1..Len(items) : items[j][1] = k
        Last(k) == items[CHOOSE j \in 1..Len(items) :
                       items[j][1] = k /\ \A l \in (j + 1)..Len(items) : items[l][1] # k][2]
        firsts == {j \in 1..Len(items) : \A l \in 1..(j - 1) : items[l][1] # items[j][1]}
        Nth(n) == CHOOSE j \in firsts : Cardinality({l \in firsts : l < j}) = n - 1
    IN  SelectSeq(data, LAMBDA e : ~Assigned(e[1]))
        \o [n \in 1..Cardinality(firsts) |-> <<items[Nth(n)][1], Last(items[Nth(n)][1])>>]

\* the assignments items[1], items[2], ... made to data in that order: a key of
\* data keeps its place and takes the last value assigned to it, a new key is
\* added at the end when it is first assigned
SetItems(data, items) ==
    LET Assigned(k) == \E j \in 1..Len(items) : items[j][1] = k
        Last(k) == items[CHOOSE j \in 1..Len(items) :
                       items[j][1] = k /\ \A l \in (j + 1)..Len(items) : items[l][1] # k][2]
        added == {j \in 1..Len(items) :
                     /\ \A i \in 1..Len(data) : data[i][1] # items[j][1]
                     /\ \A l \in 1..(j - 1) : items[l][1] # items[j][1]}
        Nth(n) == CHOOSE j \in added : Cardinality({l \in added : l < j}) = n - 1
    IN  [i \in 1..Len(data) |->
            IF Assigned(data[i][1]) THEN <<data[i][1], Last(data[i][1])>> ELSE data[i]]
        \o [n \in 1..Cardinality(added) |-> <<items[Nth(n)][1], Last(items[Nth(n)][1])>>]

\* data[k] = v
SetItem(data, k, v) == SetItems(data, << <<k, v>> >>)

data_keys ==
    <<"FileName", "Our_Ref", "Valuer_Name", "Valuer_Qualifications", "Valuer_Company",
      "Market_Value_Kshs", "Insurance_Value_Kshs", "Forced_Sale_Value_Kshs",
      "Open_Market_Rental_Value_Kshs", "Valuation_Date", "Inspection_Date",
      "Lease_Start_Date", "Transfer_Date", "Consent_To_Transfer_Date", "LR_No", "IR_No",
      "Title_No", "Apartment_No", "Unit_Type", "Block", "Floor_Level", "Estate_Name",
      "County", "Area_Neighborhood", "Road_Access_Description", "Distance_To_Landmark",
      "Google_Coordinates_Lat", "Google_Coordinates_Lon", "Built_Up_Area_SqFt",
      "Plot_Area_Ha", "Plot_Area_Acres", "Bedrooms", "Master_EnSuite", "Parking_Spaces",
      "Balcony_Present", "Accommodation_Summary", "Condition", "Occupancy_Status",
      "Internal_Finishes", "Tenure", "Lease_Term_Remaining", "Encumbrances",
      "Registered_Proprietor", "Page_Count", "Notes">>

tokens ==
    <<"ceramic", "tiles", "wardrobes", "cupboards", "stainless steel sink", "timber",
      "wooden", "ceramic worktops">>

PAGE_BREAK == "--- PAGE BREAK ---"

Pats_Our_Ref ==
    <<Pat("Our Ref[:\\s]*([\\w\\/\\-\\.\\d]+)",
          Cat(<<Str("Our Ref"), Star(Set(Space \cup {":"})), Grp(1,
          Plus(Set(Word \cup Digit \cup CharsOf("/-."))))>>)),
      Pat("Reference[:\\s]*([\\w\\/\\-\\.\\d]+)",
          Cat(<<Str("Reference"), Star(Set(Space \cup {":"})), Grp(1,
          Plus(Set(Word \cup Digit \cup CharsOf("/-."))))>>))>>
Pats_mv_raw ==
    <<Pat("(?:Current\\s+)?Market\\s+Value[^\\d\\n\\r]{0,40}([\\d\\.,\\/=\\sKShskshs]+)",
          Cat(<<Opt(Cat(<<Str("Current"), Plus(Set(Space))>>)), Str("Market"), Plus(Set(Space)),
          Str("Value"), Rep(NotSet(Digit \cup CharsOf("\n\r")), 0, 40), Grp(1,
          Plus(Set(Digit \cup Space \cup CharsOf(".,/=kKsShH"))))>>)),
      Pat("Market Value[^\\d\\n\\r]{0,40}KShs\\.?\\s*([\\d\\.,\\/=\\s]+)",
          Cat(<<Str("Market Value"), Rep(NotSet(Digit \cup CharsOf("\n\r")), 0, 40), Str("KShs"),
          Opt(Lit(".")), Star(Set(Space)), Grp(1,
          Plus(Set(Digit \cup Space \cup CharsOf(".,/="))))>>))>>
Pats_ins_raw ==
    <<Pat("Insurance Value[^\\d\\n\\r]{0,40}KShs\\.?\\s*([\\d\\.,\\/=\\s]+)",
          Cat(<<Str("Insurance Value"), Rep(NotSet(Digit \cup CharsOf("\n\r")), 0, 40),
          Str("KShs"), Opt(Lit(".")), Star(Set(Space)), Grp(1,
          Plus(Set(Digit \cup Space \cup CharsOf(".,/="))))>>)),
      Pat("Insurance\\s*Value[^\\d\\n\\r]{0,40}([\\d\\.,\\/=\\s]+)",
          Cat(<<Str("Insurance"), Star(Set(Space)), Str("Value"),
          Rep(NotSet(Digit \cup CharsOf("\n\r")), 0, 40), Grp(1,
          Plus(Set(Digit \cup Space \cup CharsOf(".,/="))))>>))>>
Pats_forced_raw ==
    <<Pat("Forced Sale Value[^\\d]{0,40}([\\d\\.,\\/=\\sKShs]+)",
          Cat(<<Str("Forced Sale Value"), Rep(NotSet(Digit), 0, 40), Grp(1,
          Plus(Set(Digit \cup Space \cup CharsOf(".,/=kKsShH"))))>>)),
      Pat("Forced Sale[^\\d]{0,40}([\\d\\.,\\/=\\sKShs]+)",
          Cat(<<Str("Forced Sale"), Rep(NotSet(Digit), 0, 40), Grp(1,
          Plus(Set(Digit \cup Space \cup CharsOf(".,/=kKsShH"))))>>))>>
Pats_rent_raw ==
    <<Pat("Open Market Rental Value[^\\d]{0,40}([\\d\\.,\\/=\\sKShs]+)",
          Cat(<<Str("Open Market Rental Value"), Rep(NotSet(Digit), 0, 40), Grp(1,
          Plus(Set(Digit \cup Space \cup CharsOf(".,/=kKsShH"))))>>)),
      Pat("Rental Value[^\\d]{0,40}([\\d\\.,\\/=\\sKShs]+)",
          Cat(<<Str("Rental Value"), Rep(NotSet(Digit), 0, 40), Grp(1,
          Plus(Set(Digit \cup Space \cup CharsOf(".,/=kKsShH"))))>>))>>
Pats_insp_raw ==
    <<Pat("inspected for valuation on\\s*([^\\n\\r]{1,60})",
          Cat(<<Str("inspected for valuation on"), Star(Set(Space)), Grp(1,
          Rep(NotSet(CharsOf("\n\r")), 1, 60))>>)),
      Pat("DATE OF INSPECTION[:\\s]*([^\\n\\r]{1,60})",
          Cat(<<Str("DATE OF INSPECTION"), Star(Set(Space \cup {":"})), Grp(1,
          Rep(NotSet(CharsOf("\n\r")), 1, 60))>>))>>
Pats_lease_raw ==
    <<Pat("with effect from\\s*([^\\n\\r]{1,40})",
          Cat(<<Str("with effect from"), Star(Set(Space)), Grp(1, Rep(NotSet(CharsOf("\n\r")), 1,
          40))>>)),
      Pat("with effect from\\s*([\\d\\/\\-\\s]{6,12})",
          Cat(<<Str("with effect from"), Star(Set(Space)), Grp(1,
          Rep(Set(Digit \cup Space \cup CharsOf("/-")), 6, 12))>>))>>
Pats_transfer_raw ==
    <<Pat("Date of Transfer\\s*[:\\s]*([^\\n\\r]{1,60})",
          Cat(<<Str("Date of Transfer"), Star(Set(Space)), Star(Set(Space \cup {":"})), Grp(1,
          Rep(NotSet(CharsOf("\n\r")), 1, 60))>>)),
      Pat("Date of Transfer[^\\n\\r]{1,60}([\\d\\/\\-\\s\\w,]+)",
          Cat(<<Str("Date of Transfer"), Rep(NotSet(CharsOf("\n\r")), 1, 60), Grp(1,
          Plus(Set(Digit \cup Space \cup Word \cup CharsOf("/-,"))))>>))>>
Pats_consent_raw ==
    <<Pat("Consent to Transfer\\s*[:\\s]*([^\\n\\r]{1,60})",
          Cat(<<Str("Consent to Transfer"), Star(Set(Space)), Star(Set(Space \cup {":"})), Grp(1,
          Rep(NotSet(CharsOf("\n\r")), 1, 60))>>)),
      Pat("CONSENT TO TRANSFER[^\\n\\r]{1,60}([\\d\\/\\-\\s\\w,]+)",
          Cat(<<Str("CONSENT TO TRANSFER"), Rep(NotSet(CharsOf("\n\r")), 1, 60), Grp(1,
          Plus(Set(Digit \cup Space \cup Word \cup CharsOf("/-,"))))>>))>>
Pats_LR_No ==
    <<Pat("(?:L\\.?R\\.?\\s*(?:No|Number|NO|NUMBER)\\.?:?)\\s*([\\d\\/\\-]+)",
          Cat(<<Lit("L"), Opt(Lit(".")), Lit("R"), Opt(Lit(".")), Star(Set(Space)),
          Alt(<<Str("No"), Str("Number"), Str("NO"), Str("NUMBER")>>), Opt(Lit(".")),
          Opt(Lit(":")), Star(Set(Space)), Grp(1, Plus(Set(Digit \cup CharsOf("/-"))))>>)),
      Pat("LR\\s*NO\\.?\\s*([\\d\\/\\-]+)",
          Cat(<<Str("LR"), Star(Set(Space)), Str("NO"), Opt(Lit(".")), Star(Set(Space)), Grp(1,
          Plus(Set(Digit \cup CharsOf("/-"))))>>))>>
Pats_IR_No ==
    <<Pat("(?:I\\.?R\\.?\\s*(?:No|Number|NO|NUMBER)\\.?:?)\\s*([\\d\\/\\-]+)",
          Cat(<<Lit("I"), Opt(Lit(".")), Lit("R"), Opt(Lit(".")), Star(Set(Space)),
          Alt(<<Str("No"), Str("Number"), Str("NO"), Str("NUMBER")>>), Opt(Lit(".")),
          Opt(Lit(":")), Star(Set(Space)), Grp(1, Plus(Set(Digit \cup CharsOf("/-"))))>>)),
      Pat("I\\.R\\. Number[:\\s]*([\\d\\/\\-]+)",
          Cat(<<Str("I.R. Number"), Star(Set(Space \cup {":"})), Grp(1,
          Plus(Set(Digit \cup CharsOf("/-"))))>>))>>
Pats_Title_No ==
    <<Pat("TITLE\\s*NO\\.?:?\\s*([\\d\\/\\-]+)",
          Cat(<<Str("TITLE"), Star(Set(Space)), Str("NO"), Opt(Lit(".")), Opt(Lit(":")),
          Star(Set(Space)), Grp(1, Plus(Set(Digit \cup CharsOf("/-"))))>>)),
      Pat("Title No[:\\s]*([\\d\\/\\-]+)",
          Cat(<<Str("Title No"), Star(Set(Space \cup {":"})), Grp(1,
          Plus(Set(Digit \cup CharsOf("/-"))))>>))>>
Pats_Apartment_No ==
    <<Pat("APARTMENT\\s*NO\\.?\\s*[:\\-]?\\s*([A-Z0-9\\-\\s\\(\\)]+)",
          Cat(<<Str("APARTMENT"), Star(Set(Space)), Str("NO"), Opt(Lit(".")), Star(Set(Space)),
          Opt(Set(CharsOf(":-"))), Star(Set(Space)), Grp(1,
          Plus(Set(Letter \cup Digit \cup Space \cup CharsOf("-()"))))>>)),
      Pat("Flat No\\.?\\s*([A-Z0-9\\-\\s\\(\\)]+)",
          Cat(<<Str("Flat No"), Opt(Lit(".")), Star(Set(Space)), Grp(1,
          Plus(Set(Letter \cup Digit \cup Space \cup CharsOf("-()"))))>>))>>
Pats_Unit_Type ==
    <<Pat("\\b(Apartment|Maisonette|Shop|Flat)\\b",
          Cat(<<WordB, Grp(1, Alt(<<Str("Apartment"), Str("Maisonette"), Str("Shop"),
          Str("Flat")>>)), WordB>>))>>
Pats_Block ==
    <<Pat("Block\\s*([A-Z0-9\\-]+)",
          Cat(<<Str("Block"), Star(Set(Space)), Grp(1,
          Plus(Set(Letter \cup Digit \cup {"-"})))>>)),
      Pat("Block\\s*([A-Z])\\b",
          Cat(<<Str("Block"), Star(Set(Space)), Grp(1, Set(Letter)), WordB>>))>>
Pats_Floor_Level ==
    <<Pat("(Ground|First|Second|Third|Basement|Upper)\\s+floor",
          Cat(<<Grp(1, Alt(<<Str("Ground"), Str("First"), Str("Second"), Str("Third"),
          Str("Basement"), Str("Upper")>>)), Plus(Set(Space)), Str("floor")>>)),
      Pat("on the\\s+(ground|first|second|third)\\s+floor",
          Cat(<<Str("on the"), Plus(Set(Space)), Grp(1, Alt(<<Str("ground"), Str("first"),
          Str("second"), Str("third")>>)), Plus(Set(Space)), Str("floor")>>))>>
Pats_Estate_Name ==
    <<Pat("(SIMBA VILLAS)",
          Grp(1, Str("SIMBA VILLAS"))),
      Pat("Estate\\s*[:\\s]*([A-Za-z0-9\\s]+(?:VILLAS|ESTATE|COURT|GARDENS)?)",
          Cat(<<Str("Estate"), Star(Set(Space)), Star(Set(Space \cup {":"})), Grp(1,
          Cat(<<Plus(Set(Letter \cup Digit \cup Space)), Opt(Alt(<<Str("VILLAS"), Str("ESTATE"),
          Str("COURT"), Str("GARDENS")>>))>>))>>)),
      Pat("([\\w\\s]+(?:VILLAS|ESTATE|COURT|MAISONETTES|COMPLEX))",
          Grp(1, Cat(<<Plus(Set(Word \cup Space)), Alt(<<Str("VILLAS"), Str("ESTATE"),
          Str("COURT"), Str("MAISONETTES"), Str("COMPLEX")>>)>>)))>>
Pats_county ==
    <<Pat("([A-Za-z\\s]{3,30}County)",
          Grp(1, Cat(<<Rep(Set(Letter \cup Space), 3, 30), Str("County")>>))),
      Pat("([A-Za-z\\s]{2,30}\\s+County)",
          Grp(1, Cat(<<Rep(Set(Letter \cup Space), 2, 30), Plus(Set(Space)), Str("County")>>))),
      Pat("(NAIROBI COUNTY)",
          Grp(1, Str("NAIROBI COUNTY")))>>
Pats_Area_Neighborhood ==
    <<Pat("Embakasi Area|([A-Za-z\\s]+ Area)",
          Alt(<<Str("Embakasi Area"), Grp(1, Cat(<<Plus(Set(Letter \cup Space)),
          Str(" Area")>>))>>)),
      Pat("Area[:\\s]*([A-Za-z\\s]+)",
          Cat(<<Str("Area"), Star(Set(Space \cup {":"})), Grp(1,
          Plus(Set(Letter \cup Space)))>>))>>
Pats_Road_Access_Description ==
    <<Pat("approximately\\s*[\\d,\\.]+\\s*meters\\s*off\\s*([A-Za-z0-9\\s]+(?:Road|Rd))",
          Cat(<<Str("approximately"), Star(Set(Space)), Plus(Set(Digit \cup CharsOf(",."))),
          Star(Set(Space)), Str("meters"), Star(Set(Space)), Str("off"), Star(Set(Space)), Grp(1,
          Cat(<<Plus(Set(Letter \cup Digit \cup Space)), Alt(<<Str("Road"), Str("Rd")>>)>>))>>)),
      Pat("along\\s*([A-Za-z0-9\\s]+(?:Road|Rd))",
          Cat(<<Str("along"), Star(Set(Space)), Grp(1,
          Cat(<<Plus(Set(Letter \cup Digit \cup Space)), Alt(<<Str("Road"), Str("Rd")>>)>>))>>)),
      Pat("situated along\\s*([A-Za-z0-9\\s]+(?:Road|Rd))",
          Cat(<<Str("situated along"), Star(Set(Space)), Grp(1,
          Cat(<<Plus(Set(Letter \cup Digit \cup Space)), Alt(<<Str("Road"), Str("Rd")>>)>>))>>))>>
Pats_Distance_To_Landmark ==
    <<Pat("([\\d,\\.]+\\s*meters?\\s*to\\s*(?:the\\s*)?[A-Za-z0-9\\s,]+)",
          Grp(1, Cat(<<Plus(Set(Digit \cup CharsOf(",."))), Star(Set(Space)), Str("meter"),
          Opt(Lit("s")), Star(Set(Space)), Str("to"), Star(Set(Space)), Opt(Cat(<<Str("the"),
          Star(Set(Space))>>)), Plus(Set(Letter \cup Digit \cup Space \cup {","}))>>))),
      Pat("([\\d,\\.]+\\s*m(?:eters?)\\s*(?:to|from)\\s*[A-Za-z0-9\\s,]+)",
          Grp(1, Cat(<<Plus(Set(Digit \cup CharsOf(",."))), Star(Set(Space)), Str("meter"),
          Opt(Lit("s")), Star(Set(Space)), Alt(<<Str("to"), Str("from")>>), Star(Set(Space)),
          Plus(Set(Letter \cup Digit \cup Space \cup {","}))>>)))>>
Pats_gblock ==
    <<Pat("Google\\s+coordinates[:\\s]*([^\\n\\r]{0,120})",
          Cat(<<Str("Google"), Plus(Set(Space)), Str("coordinates"), Star(Set(Space \cup {":"})),
          Grp(1, Rep(NotSet(CharsOf("\n\r")), 0, 120))>>)),
      Pat("Google Map Excerpt[:\\s]*([^\\n\\r]{0,120})",
          Cat(<<Str("Google Map Excerpt"), Star(Set(Space \cup {":"})), Grp(1,
          Rep(NotSet(CharsOf("\n\r")), 0, 120))>>)),
      Pat("Google coordinates[^\\n\\r]{0,120}",
          Cat(<<Str("Google coordinates"), Rep(NotSet(CharsOf("\n\r")), 0, 120)>>))>>
Pats_Accommodation_Summary ==
    <<Pat("Accommodation comprises\\s*[:\\-]?\\s*(.+?)(?:\\.\\s|$|\\n--- PAGE BREAK ---)",
          Cat(<<Str("Accommodation comprises"), Star(Set(Space)), Opt(Set(CharsOf(":-"))),
          Star(Set(Space)), Grp(1, Lazy(AnyCh, 1, Inf)), Alt(<<Cat(<<Lit("."), Set(Space)>>),
          Eol, Str("\n--- PAGE BREAK ---")>>)>>)),
      Pat("Accommodation comprises[^\\n\\r]+([^\\n\\r]+)",
          Cat(<<Str("Accommodation comprises"), Plus(NotSet(CharsOf("\n\r"))), Grp(1,
          Plus(NotSet(CharsOf("\n\r"))))>>))>>
Pats_Condition ==
    <<Pat("(?:in a|is in a)\\s*(good|fair|poor|excellent)\\s*state",
          Cat(<<Alt(<<Str("in a"), Str("is in a")>>), Star(Set(Space)), Grp(1, Alt(<<Str("good"),
          Str("fair"), Str("poor"), Str("excellent")>>)), Star(Set(Space)), Str("state")>>)),
      Pat("(?:The apartment is in a|The property is in a)\\s*(good|fair|poor|excellent)\\s*state",
          Cat(<<Alt(<<Str("The apartment is in a"), Str("The property is in a")>>),
          Star(Set(Space)), Grp(1, Alt(<<Str("good"), Str("fair"), Str("poor"),
          Str("excellent")>>)), Star(Set(Space)), Str("state")>>))>>
Pats_Occupancy_Status ==
    <<Pat("(owner-occupied|owner occupied|tenant-occupied|tenant occupied|vacant|occupied)",
          Grp(1, Alt(<<Str("owner-occupied"), Str("owner occupied"), Str("tenant-occupied"),
          Str("tenant occupied"), Str("vacant"), Str("occupied")>>)))>>
Pats_Tenure ==
    <<Pat("(leasehold interest|freehold interest|leasehold|freehold)",
          Grp(1, Alt(<<Str("leasehold interest"), Str("freehold interest"), Str("leasehold"),
          Str("freehold")>>)))>>
Pats_Encumbrances ==
    <<Pat("Encumbrances\\s*[:\\s]*([^\\n\\r]{1,200})",
          Cat(<<Str("Encumbrances"), Star(Set(Space)), Star(Set(Space \cup {":"})), Grp(1,
          Rep(NotSet(CharsOf("\n\r")), 1, 200))>>)),
      Pat("Encumbrances\\s*([^\\n\\r]{1,200})",
          Cat(<<Str("Encumbrances"), Star(Set(Space)), Grp(1, Rep(NotSet(CharsOf("\n\r")), 1,
          200))>>))>>
Pats_Registered_Proprietor ==
    <<Pat("registered in the names? of\\s*([A-Za-z0-9\\s,\\.&\\-]+)\\.",
          Cat(<<Str("registered in the name"), Opt(Lit("s")), Str(" of"), Star(Set(Space)),
          Grp(1, Plus(Set(Letter \cup Digit \cup Space \cup CharsOf(",.&-")))), Lit(".")>>)),
      Pat("The subject lease is registered in the names? of\\s*([A-Za-z0-9\\s,\\.&\\-]+)\\.",
          Cat(<<Str("The subject lease is registered in the name"), Opt(Lit("s")), Str(" of"),
          Star(Set(Space)), Grp(1, Plus(Set(Letter \cup Digit \cup Space \cup CharsOf(",.&-")))),
          Lit(".")>>))>>
P_mcounty ==
    Pat("([A-Za-z]{3,30})\\s+COUNTY",
        Cat(<<Grp(1, Rep(Set(Letter), 3, 30)), Plus(Set(Space)), Str("COUNTY")>>))
P_bmatch ==
    Pat("(?:gross plinth area is approximately|built[- ]?up area is approximately|BUILT UP AREA[:\\s]*)\\s*([\\d,\\.]+)\\s*(?:square feet|sq\\. ft|sq ft|square\\s*feet)",
        Cat(<<Alt(<<Str("gross plinth area is approximately"), Cat(<<Str("built"),
        Opt(Set(CharsOf("- "))), Str("up area is approximately")>>), Cat(<<Str("BUILT UP AREA"),
        Star(Set(Space \cup {":"}))>>)>>), Star(Set(Space)), Grp(1,
        Plus(Set(Digit \cup CharsOf(",.")))), Star(Set(Space)), Alt(<<Str("square feet"),
        Str("sq. ft"), Str("sq ft"), Cat(<<Str("square"), Star(Set(Space)), Str("feet")>>)>>)>>))
P_malt ==
    Pat("(\\d{3,5})\\s*(?:sq\\.?\\s*ft|square\\s*feet)",
        Cat(<<Grp(1, Rep(Set(Digit), 3, 5)), Star(Set(Space)), Alt(<<Cat(<<Str("sq"),
        Opt(Lit(".")), Star(Set(Space)), Str("ft")>>), Cat(<<Str("square"), Star(Set(Space)),
        Str("feet")>>)>>)>>))
P_balcony ==
    Pat("\\bbalcony\\b",
        Cat(<<WordB, Str("balcony"), WordB>>))
P_mterm ==
    Pat("(\\d{1,3}\\s*years)\\s*with effect from\\s*([^\\n\\r]{1,30})",
        Cat(<<Grp(1, Cat(<<Rep(Set(Digit), 1, 3), Star(Set(Space)), Str("years")>>)),
        Star(Set(Space)), Str("with effect from"), Star(Set(Space)), Grp(2,
        Rep(NotSet(CharsOf("\n\r")), 1, 30))>>))

\* the result is the dict data, or Raised where an exception leaves the function
extract_data_points(full_text, file_path) ==
    LET filename == IF file_path = None \/ file_path = "" THEN "N/A" ELSE basename(file_path)
        text == IF full_text = None THEN "" ELSE full_text
        F(pats) == find_first(List(pats), text)
        Date(raw) == IF raw # "N/A" THEN fuzzy_date_search(raw) ELSE "N/A"
        data == [i \in 1..Len(data_keys) |-> <<data_keys[i], "N/A">>]
        Named(mcounty) == IF mcounty.ok THEN title(Group(text, mcounty, 1)) \o " County"
                          ELSE "N/A"
        County(county) == IF county # "N/A" THEN county ELSE Named(Search(P_mcounty.re, text))
        Block(gblock) == IF gblock # "N/A" THEN gblock ELSE text
        Alternative(malt) == IF malt.ok THEN Group(text, malt, 1) ELSE "N/A"
        BuiltUp(bmatch) ==
            IF bmatch.ok THEN Replace(_clean_whitespace(Group(text, bmatch, 1)), ",", "")
            ELSE Alternative(Search(P_malt.re, text))
        Found(lower_text) == SelectSeq(tokens, LAMBDA token : Contains(lower_text, token))
        Finishes(finishes) == IF Len(finishes) > 0 THEN _safe(Join(", ", finishes)) ELSE "N/A"
        Term(mterm) ==
            IF mterm.ok
            THEN strip(Group(text, mterm, 1)) \o " from " \o fuzzy_date_search(Group(text, mterm, 2))
            ELSE "N/A"
        Assign(coords, area, beds, valuer) == SetItems(data, <<
            <<"FileName", filename>>,
            <<"Our_Ref", _safe(F(Pats_Our_Ref))>>,
            <<"Market_Value_Kshs", normalize_number(F(Pats_mv_raw))>>,
            <<"Insurance_Value_Kshs", normalize_number(F(Pats_ins_raw))>>,
            <<"Forced_Sale_Value_Kshs", normalize_number(F(Pats_forced_raw))>>,
            <<"Open_Market_Rental_Value_Kshs", normalize_number(F(Pats_rent_raw))>>,
            <<"Valuation_Date", fuzzy_date_search(text)>>,
            <<"Inspection_Date", Date(F(Pats_insp_raw))>>,
            <<"Lease_Start_Date", Date(F(Pats_lease_raw))>>,
            <<"Transfer_Date", Date(F(Pats_transfer_raw))>>,
            <<"Consent_To_Transfer_Date", Date(F(Pats_consent_raw))>>,
            <<"LR_No", _safe(F(Pats_LR_No))>>,
            <<"IR_No", _safe(F(Pats_IR_No))>>,
            <<"Title_No", _safe(F(Pats_Title_No))>>,
            <<"Apartment_No", _safe(F(Pats_Apartment_No))>>,
            <<"Unit_Type", _safe(F(Pats_Unit_Type))>>,
            <<"Block", _safe(F(Pats_Block))>>,
            <<"Floor_Level", _safe(F(Pats_Floor_Level))>>,
            <<"Estate_Name", _safe(F(Pats_Estate_Name))>>,
            <<"County", _safe(County(F(Pats_county)))>>,
            <<"Area_Neighborhood", _safe(F(Pats_Area_Neighborhood))>>,
            <<"Road_Access_Description", _safe(F(Pats_Road_Access_Description))>>,
            <<"Distance_To_Landmark", _safe(F(Pats_Distance_To_Landmark))>>,
            <<"Google_Coordinates_Lat", _safe(coords[1])>>,
            <<"Google_Coordinates_Lon", _safe(coords[2])>>,
            <<"Built_Up_Area_SqFt", BuiltUp(Search(P_bmatch.re, text))>>,
            <<"Plot_Area_Ha", _safe(area[1])>>,
            <<"Plot_Area_Acres", _safe(area[2])>>,
            <<"Bedrooms", _safe(beds[1])>>,
            <<"Master_EnSuite", _safe(beds[2])>>,
            <<"Parking_Spaces", _safe(extract_parking(text))>>,
            <<"Balcony_Present", IF Search(P_balcony.re, text).ok THEN "Yes" ELSE "No">>,
            <<"Accommodation_Summary", _safe(F(Pats_Accommodation_Summary))>>,
            <<"Condition", _safe(F(Pats_Condition))>>,
            <<"Occupancy_Status", _safe(F(Pats_Occupancy_Status))>>,
            <<"Internal_Finishes", Finishes(Found(lower(text)))>>,
            <<"Tenure", _safe(F(Pats_Tenure))>>,
            <<"Lease_Term_Remaining", Term(Search(P_mterm.re, text))>>,
            <<"Encumbrances", _safe(F(Pats_Encumbrances))>>,
            <<"Registered_Proprietor", _safe(F(Pats_Registered_Proprietor))>>,
            <<"Valuer_Name", _safe(valuer[1])>>,
            <<"Valuer_Qualifications", _safe(valuer[2])>>,
            <<"Valuer_Company", _safe(valuer[3])>>,
            <<"Page_Count",
              IntToStr(IF strip(text) # "" THEN CountFrom(text, PAGE_BREAK, 1) + 1 ELSE 0)>> >>)
        Missing(assigned) == {i \in 1..Len(assigned) :
                                 /\ assigned[i][2] \in {None, "", "N/A"}
                                 /\ assigned[i][1] \notin {"Notes", "FileName"}}
        Note(assigned) ==
            SetItem(assigned, "Notes",
                    "Missing fields count: " \o IntToStr(Cardinality(Missing(assigned))))
        Finish(area) ==
            IF area = Raised THEN Raised
            ELSE Note(Assign(extract_coordinates(Block(F(Pats_gblock))),
                             area, extract_bedrooms(text), extract_valuer(text)))
    IN  Finish(extract_plot_area(text))

(***************************************************************************)
(* normalize_number applied to raw strings                                 *)
(***************************************************************************)
MaxRawLen == 4
RawAlphabet == {"0", "1", "7", ",", ".", "/", "=", " "}
\* raw strings as the cascades of the record hand them over
RawSamples == {"KShs. 8,500,000/=", "1,000", "kshs.0050", "Kshs 12/=", "KSHS", "N/A"}

RECURSIVE StringsUpTo(_, _)
StringsUpTo(cs, n) ==
    IF n = 0 THEN {""}
    ELSE LET shorter == StringsUpTo(cs, n - 1)
         IN  shorter \cup {s \o c : s \in shorter, c \in cs}

InitNum ==
    /\ pc = "call"
    /\ arg \in StringsUpTo(RawAlphabet, MaxRawLen) \cup RawSamples \cup {None}
    /\ ret = None

CallNormalizeNumber ==
    /\ pc = "call"
    /\ ret' = normalize_number(arg)
    /\ pc' = "done"
    /\ UNCHANGED arg

NextNum == CallNormalizeNumber
SpecNum == InitNum /\ [][NextNum]_vars

RECURSIVE DigitsFrom(_, _)
\* the digits of s from i on, in their order
DigitsFrom(s, i) ==
    IF i > Len(s) THEN ""
    ELSE (IF Ch(s, i) \in Digit THEN Ch(s, i) ELSE "") \o DigitsFrom(s, i + 1)

\* a string of digits without its leading zeros, "0" when it has no other digit
WithoutLeadingZeros(d) ==
    IF \A i \in 1..Len(d) : Ch(d, i) = "0" THEN "0"
    ELSE SubSeq(d, CHOOSE i \in 1..Len(d) :
                       Ch(d, i) # "0" /\ \A j \in 1..(i - 1) : Ch(d, j) = "0", Len(d))

\* C5: normalize_number returns the sentinel when the raw input is None or holds
\* no digit, and otherwise exactly the digits of the raw input, in their order,
\* without leading zeros ("0" when every digit is a zero): no separator, point,
\* currency token or slash/equals sign is left in the result.
C5_DigitsOnly ==
    pc = "done" =>
        ret = IF arg = None \/ DigitsFrom(arg, 1) = "" THEN "N/A"
              ELSE WithoutLeadingZeros(DigitsFrom(arg, 1))

\* a currency token, separators and the slash/equals artifact are all removed
C5_Witness == pc = "done" /\ arg = "KShs. 8,500,000/=" /\ ret = "8500000"

\* the least number of digits a monetary value has in the specification's example
MinDigits == 6

\* C6: a value normalize_number returns has at least MinDigits digits; a shorter
\* run of digits gives the sentinel.
C6_MinimumDigits == pc = "done" /\ ret # "N/A" => Len(ret) >= MinDigits

(***************************************************************************)
(* fuzzy_date_search applied to texts, and again to its own result         *)
(***************************************************************************)
DateTexts ==
    LET Days == {"1", "17", "31"}
        Ordinals == {"", "th", "st", "%", "º", " %", "o"}
        Separators == {" ", ", ", ""}
        Months == {"April", "Apr", "Foo", "February"}
        DateSamples ==
            {"", "no date", "2025-04-17", "1/2/25", "1-2-25", "31/12/1999", "April 5, 2025",
             "April 5 2025", "on 1/2/2025 and 3rd May 2021", "May 4 2020 or 1/2/2025",
             "29 February 2024", "Date: 11th  March\n2025", "11th March 2025"}
    IN  {d \o o \o sep \o mon \o " 2025" :
            d \in Days, o \in Ordinals, sep \in Separators, mon \in Months} \cup DateSamples

InitDate ==
    /\ pc = "call"
    /\ arg \in DateTexts \cup {None}
    /\ ret = None

CallFuzzyDateSearch ==
    /\ pc = "call"
    /\ ret' = fuzzy_date_search(arg)
    /\ pc' = "done"
    /\ UNCHANGED arg

\* the result of the call is itself handed to fuzzy_date_search
CallFuzzyDateSearchAgain ==
    /\ pc = "done"
    /\ arg' = ret
    /\ ret' = fuzzy_date_search(ret)
    /\ pc' = "again"

NextDate == CallFuzzyDateSearch \/ CallFuzzyDateSearchAgain
SpecDate == InitDate /\ [][NextDate]_vars

\* YYYY-MM-DD
IsCanonicalDate(s) ==
    /\ Len(s) = 10
    /\ \A i \in {1, 2, 3, 4, 6, 7, 9, 10} : Ch(s, i) \in Digit
    /\ Ch(s, 5) = "-" /\ Ch(s, 8) = "-"

\* C7: a canonical date that fuzzy_date_search has produced is returned unchanged
\* when fuzzy_date_search is applied to it.
C7_Idempotent == pc = "again" /\ IsCanonicalDate(arg) => ret = arg

\* the first of the three shapes, in their order, that occurs in text; 0 if none does
FirstShape(text) ==
    LET found == {k \in 1..Len(date_patterns) : Search(date_patterns[k], text).ok}
    IN  IF found = {} THEN 0 ELSE CHOOSE k \in found : \A l \in found : k <= l

\* s without the characters of cs
RECURSIVE Without(_, _)
Without(s, cs) ==
    IF s = "" THEN ""
    ELSE (IF Ch(s, 1) \in cs THEN "" ELSE Ch(s, 1)) \o Without(SubSeq(s, 2, Len(s)), cs)

MaxPatterns == 2
\* the entries a list is made of: patterns, a pattern equal to one of the
\* texts, a string that is no regular expression, and an entry that is no string
FindPool ==
    {Pat("b+", Plus(Lit("b"))),
     Pat("(a)|c", Alt(<<Grp(1, Lit("a")), Lit("c")>>)),
     Pat("x*", Star(Lit("x"))),
     Pat("(\\s)c", Cat(<<Grp(1, Set(Space)), Lit("c")>>)),
     Pat("abc", Str("abc")),
     Pat("a.*c", Cat(<<Lit("a"), Star(AnyCh), Lit("c")>>)),
     [isstr |-> TRUE, valid |-> FALSE, src |-> "(", re |-> Cat(<<>>)],
     [isstr |-> FALSE, valid |-> FALSE, src |-> "5", re |-> Cat(<<>>)]}
FindTexts == {"", "abc", "a b  c", "bb\tc", "zz"}

InitFind ==
    /\ pc = "call"
    /\ arg \in [patterns : {List(ps) : ps \in UNION {[1..n -> FindPool] : n \in 0..MaxPatterns}}
                               \cup {[list |-> FALSE, v |-> p] : p \in FindPool},
                text : FindTexts \cup {None}]
    /\ ret = None

CallFindFirst ==
    /\ pc = "call"
    /\ ret' = find_first(arg.patterns, arg.text)
    /\ pc' = "done"
    /\ UNCHANGED arg

NextFind == CallFindFirst
SpecFind == InitFind /\ [][NextFind]_vars

\* the entries of the argument, as a list
PatternList(patterns) == IF patterns.list THEN patterns.v ELSE <<patterns.v>>

\* the result that the earliest entry among those of hits gives, the sentinel
\* when there is none
EarliestOf(hits, ps, text) ==
    IF hits = {} THEN "N/A"
    ELSE FirstGroup(text, Search(ps[CHOOSE k \in hits : \A l \in hits : k <= l].re, text))

\* C4 as stated: the result comes from the earliest pattern of the list that
\* matches the text, and is the sentinel when no pattern matches or the text is
\* empty.
C4_EarliestMatchWins ==
    pc = "done" =>
        LET ps == PatternList(arg.patterns)
            matching == {k \in 1..Len(ps) :
                            ps[k].isstr /\ ps[k].valid /\ Search(ps[k].re, arg.text).ok}
        IN  ret = IF arg.text \in {None, ""} THEN "N/A"
                  ELSE EarliestOf(matching, ps, arg.text)

\* C4, amended: the result comes from the earliest pattern that matches the text
\* among the entries find_first keeps (strings that compile and differ from the
\* text itself); a later pattern never overrides it; the result is the sentinel
\* when no kept pattern matches or the text is empty.
C4_EarliestKeptMatchWins ==
    pc = "done" =>
        LET ps == PatternList(arg.patterns)
            matching == {k \in 1..Len(ps) :
                            /\ ps[k].isstr /\ ps[k].valid /\ ps[k].src # arg.text
                            /\ Search(ps[k].re, arg.text).ok}
        IN  ret = IF arg.text \in {None, ""} THEN "N/A"
                  ELSE EarliestOf(matching, ps, arg.text)

\* two patterns match "abc"; the first of the list gives the result
C4_Witness ==
    /\ pc = "done"
    /\ arg.text = "abc"
    /\ arg.patterns = List(<<Pat("(a)|c", Alt(<<Grp(1, Lit("a")), Lit("c")>>)),
                             Pat("b+", Plus(Lit("b")))>>)
    /\ ret = "a"

(***************************************************************************)
(* extract_coordinates applied to texts                                    *)
(***************************************************************************)
CoordinateTexts ==
    LET Latitudes == {"-1.30969", "45.5", "90.0", "91.0", "100.5", "-200.25"}
        Longitudes == {"36.92089", "36.9", "-179.5", "181.0"}
        PairSeparators == {", ", " ", ";"}
        DecimalTexts ==
            {lat \o sep \o lon : lat \in Latitudes, sep \in PairSeparators, lon \in Longitudes}
        Seconds == {"34.9", "0", "3.4.5"}
        Hemispheres == {"S", "N", "s", ""}
        Meridians == {"E", "W", ""}
        DmsTexts ==
            {d \o "°18'" \o sec \o "\"" \o h \o " 36°55'11.3\"" \o w :
                d \in {"1", "0"}, sec \in Seconds, h \in Hemispheres, w \in Meridians}
    IN  DecimalTexts \cup DmsTexts \cup {"", "no coordinates", " 1.5 2 "}

InitCoord ==
    /\ pc = "call"
    /\ arg \in CoordinateTexts \cup {None}
    /\ ret = None

CallExtractCoordinates ==
    /\ pc = "call"
    /\ ret' = extract_coordinates(arg)
    /\ pc' = "done"
    /\ UNCHANGED arg

NextCoord == CallExtractCoordinates
SpecCoord == InitCoord /\ [][NextCoord]_vars

\* the decimal string s, of the form -?digits.digits, is at most limit in size
WithinDegrees(s, limit) ==
    LET unsigned == IF Ch(s, 1) = "-" THEN SubSeq(s, 2, Len(s)) ELSE s
        point == CHOOSE i \in 1..Len(unsigned) : Ch(unsigned, i) = "."
        whole == ToInt(SubSeq(unsigned, 1, point - 1))
        fraction == SubSeq(unsigned, point + 1, Len(unsigned))
    IN  whole < limit \/ (whole = limit /\ \A i \in 1..Len(fraction) : Ch(fraction, i) = "0")

\* C10: a pair extract_coordinates returns is the sentinel on both axes, or has
\* its latitude in [-90, 90] and its longitude in [-180, 180].
C10_PairInRange ==
    pc = "done" =>
        \/ ret = <<"N/A", "N/A">>
        \/ /\ ret[1] # "N/A" /\ ret[2] # "N/A"
           /\ WithinDegrees(ret[1], 90) /\ WithinDegrees(ret[2], 180)

(***************************************************************************)
(* extract_data_points applied to report texts                             *)
(***************************************************************************)
\* the lines a report text is made of: a line of each kind, well formed or not
ReportTexts ==
    LET RefLine == "Our Ref: V/12\n"
        ValueLines == {"Market Value KShs. 8,500,000/= only\n", "Market Value KShs. nil\n"}
        DateLines == {"", "Dated 17th April 2025\n", "Dated 31st April 2025\n"}
        AreaLines == {"", "Plot 2.5 acres\n", "Plot . ha\n"}
        BuiltLines == {"", "BUILT UP AREA: 1,200 sq ft\n", "BUILT UP AREA: , sq ft\n"}
        CoordLines == {"Google coordinates: 100.5, 36.9",
                       "Google coordinates: 1°18'3.4.5\"S 36°55'11.3\"E"}
    IN  {RefLine \o v \o d \o a \o b \o c :
            v \in ValueLines, d \in DateLines, a \in AreaLines, b \in BuiltLines, c \in CoordLines}

InitRecord ==
    /\ pc = "call"
    /\ arg \in [full_text : ReportTexts, file_path : {"reports/v1.pdf"}]
               \cup [full_text : {None, "", " \n"}, file_path : {None, "", "v1.pdf", "reports/v1.pdf"}]
    /\ ret = None

CallExtractDataPoints ==
    /\ pc = "call"
    /\ ret' = extract_data_points(arg.full_text, arg.file_path)
    /\ pc' = "done"
    /\ UNCHANGED arg

NextRecord == CallExtractDataPoints
SpecRecord == InitRecord /\ [][NextRecord]_vars

Field(name) == DictItem(ret, name)
Text == IF arg.full_text = None THEN "" ELSE arg.full_text
Has(fragment) == Contains(Text, fragment)

\* C1: whatever the text (None and "" included) and whatever the file path,
\* the returned record has the field names of COLUMN_HEADERS, in that order,
\* none missing, none added, none moved
C1_SchemaKeys == pc = "done" => DictKeys(ret) = COLUMN_HEADERS

C1_Witness ==
    /\ pc = "done"
    /\ arg.full_text = None
    /\ arg.file_path = "reports/v1.pdf"
    /\ DictKeys(ret) = COLUMN_HEADERS
    /\ Field("FileName") = "v1.pdf"

C3_NoEmptyField ==
    pc = "done" /\ ret # Raised => \A i \in 1..Len(ret) : ret[i][2] \notin {None, ""}

\* the one anchor phrase the specification spells out
AnchorPhrases == {"practicing valuer"}
HasAnchor == \E p \in AnchorPhrases : Contains(lower(Text), p)

\* C9: Valuation_Date comes from the window that starts at the last line with an
\* anchor phrase, so it is "N/A" in a text where no line has an anchor phrase
C9_AnchoredValuationDate ==
    pc = "done" /\ ret # Raised /\ ~HasAnchor => Field("Valuation_Date") = "N/A"

(***************************************************************************)
(* extract_plot_area applied to texts                                      *)
(***************************************************************************)
AreaTexts ==
    LET Hectares == {"", "1 ha", "0.5 hectares", ". ha", "1.2.3 ha", "100 hectare"}
        Acres == {"", "2.5 acres", "3 acre", ". acres", "12 Acres"}
        Leads == {"Plot ", "measuring approx. "}
    IN  {l \o h \o " or " \o a : l \in Leads, h \in Hectares, a \in Acres}

InitArea ==
    /\ pc = "call"
    /\ arg \in AreaTexts \cup {None, ""}
    /\ ret = None

CallExtractPlotArea ==
    /\ pc = "call"
    /\ ret' = extract_plot_area(arg)
    /\ pc' = "done"
    /\ UNCHANGED arg

NextArea == CallExtractPlotArea
SpecArea == InitArea /\ [][NextArea]_vars

\* C11: extract_plot_area returns the sentinel on both sides exactly when
\* neither unit pattern matches the text; the two results are always both the
\* sentinel or both values; and when both units are found, both are returned as
\* the text has them.
C11_BothOrNeither ==
    pc = "done" =>
        LET text == IF arg = None THEN "" ELSE arg
            m_ha == Search(P_m_ha.re, text)
            m_ac == Search(P_m_ac.re, text)
        IN  /\ (ret = <<"N/A", "N/A">>) <=> (~m_ha.ok /\ ~m_ac.ok)
            /\ (ret[1] = "N/A") <=> (ret[2] = "N/A")
            /\ m_ha.ok /\ m_ac.ok => ret = <<Group(text, m_ha, 1), Group(text, m_ac, 1)>>

(***************************************************************************)
(* extract_data_points applied to texts that name counties                 *)
(***************************************************************************)
InitCounty ==
    LET Names == {"", "Kiambu County", "Nairobi County", "KIAMBU", "nairobi county", "Kiambu"}
        Joins == {" near ", "\n"}
    IN  /\ pc = "call"
        /\ arg \in [full_text : {a \o j \o b : a \in Names, j \in Joins, b \in Names},
                    file_path : {"reports/v1.pdf"}]
        /\ ret = None

NextCounty == CallExtractDataPoints
SpecCounty == InitCounty /\ [][NextCounty]_vars

\* the terms of the county list that the specification names, in their order
CountyTerms == <<"Nairobi County", "Kiambu">>

\* the first term, in the order of the list, that the text holds in any case of
\* letters; the sentinel when it holds none
VocabularyMatch(terms, text) ==
    LET Earliest(hits) ==
            IF hits = {} THEN "N/A" ELSE terms[CHOOSE k \in hits : \A l \in hits : k <= l]
    IN  Earliest({k \in 1..Len(terms) : Contains(lower(text), lower(terms[k]))})

\* C12: the County field is the term of the county list that comes first in the
\* list among those the text holds, wherever each of them stands in the text,
\* and the sentinel when the text holds no term of the list.
C12_VocabularyPriority ==
    pc = "done" /\ ret # Raised => Field("County") = VocabularyMatch(CountyTerms, Text)

\* C13: the count that the Notes field of a finished record states is the
\* number of fields of the whole record that hold the sentinel.
C13_NoteCountsSentinels ==
    pc = "done" /\ ret # Raised =>
        LET stated == ToInt(DigitsFrom(Field("Notes"), 1))
            sentinels == {i \in 1..Len(ret) : ret[i][2] = "N/A"}
        IN  stated = Cardinality(sentinels)

(***************************************************************************)
(* pdf_reader.py.  A PDF file is what the libraries do with it: whether    *)
(* PdfReader opens it, whether convert_from_path renders it, and for each  *)
(* page the text extract_text gives (None where it raises or gives None)   *)
(* and what pytesseract does with the page image.                          *)
(***************************************************************************)
\* a page image: the text pytesseract reads from it, or the exception it raises
Image(text) == [present |-> TRUE, raises |-> FALSE, text |-> text, error |-> ""]
ImageRaising(error) == [present |-> TRUE, raises |-> TRUE, text |-> "", error |-> error]
\* None in the place of an image
NoImage == [present |-> FALSE, raises |-> FALSE, text |-> "", error |-> ""]

\* ocr_page_image: the stripped text, or the message of the exception
ocr_page_image(image) ==
    IF image.raises THEN "[OCR ERROR] " \o image.error ELSE strip(image.text)

RECURSIVE PageTextsFrom(_, _)
\* the loop over the pages from the i-th on: what it adds to full_text
PageTextsFrom(pdf, i) ==
    IF i > Len(pdf.pages) THEN ""
    ELSE LET native == pdf.pages[i].native
             \* images = [None] * num_pages where convert_from_path raises
             img == IF pdf.converts THEN pdf.pages[i].image ELSE NoImage
             page_text ==
                 IF native = None \/ native = "" \/ strip(native) = ""
                 THEN (IF img.present THEN ocr_page_image(img) ELSE "")
                 ELSE native
         IN  page_text \o "\n--- PAGE BREAK ---\n" \o PageTextsFrom(pdf, i + 1)

\* extract_pdf_text: None for a file that PdfReader does not open
extract_pdf_text(pdf) == IF ~pdf.opens THEN None ELSE strip(PageTextsFrom(pdf, 1))

(***************************************************************************)
(* main.py: run_extraction_pipeline over the files get_pdf_file_paths      *)
(* finds.  arg is the list of the files, each with its path and what it    *)
(* holds; ret holds the locals of the function and what it has written.    *)
(***************************************************************************)
\* row.get(k, default) and extracted.get(k)
Get(row, k, default) ==
    IF \E i \in 1..Len(row) : row[i][1] = k THEN DictItem(row, k) ELSE default

\* the value of debug_matches[filename]
DebugSnapshot(extracted) ==
    [i \in 1..Len(extracted) |->
        <<extracted[i][1],
          IF Get(extracted, extracted[i][1], None) \notin {None, "", "N/A"}
          THEN "FOUND" ELSE "MISSING">>]

\* the files of the input directory
PdfPool ==
    LET Page(native, image) == [native |-> native, image |-> image]
        Pdf(opens, converts, pages) == [opens |-> opens, converts |-> converts, pages |-> pages]
    IN  {Pdf(FALSE, FALSE, <<>>),
         Pdf(TRUE, TRUE, <<Page("Our Ref: V/12", Image(""))>>),
         Pdf(TRUE, TRUE, <<Page("Our Ref: V/7\n", Image("")), Page("Plot 2.5 acres", Image(""))>>),
         Pdf(TRUE, TRUE, <<Page(None, Image(" Our Ref: V/9\n"))>>),
         Pdf(TRUE, TRUE, <<Page(" \n", ImageRaising("tesseract is not installed"))>>),
         Pdf(TRUE, FALSE, <<Page("", Image("Our Ref: V/5"))>>),
         Pdf(TRUE, TRUE, <<>>)}
MaxFiles == 2
\* the paths glob gives, in its order, for a directory with sub-directories
PathLists == {<<"data/a/v1.pdf", "data/b/v1.pdf", "data/b/v3.pdf">>,
              <<"data/a/v1.pdf", "data/a/v2.pdf", "data/b/v3.pdf">>}

InitPipeline ==
    /\ pc = "start"
    /\ arg \in UNION {{[i \in 1..n |-> [file_path |-> paths[i], pdf |-> pdfs[i]]] :
                          paths \in PathLists, pdfs \in [1..n -> PdfPool]} : n \in 0..MaxFiles}
    /\ ret = None

\* lines 21-32: no file, no output
StartPipeline ==
    /\ pc = "start"
    /\ pc' = IF Len(arg) = 0 THEN "returned" ELSE "loop"
    /\ ret' = [i |-> 1, all_extracted_data |-> <<>>, debug_matches |-> <<>>, called |-> <<>>,
               csv |-> <<>>, json |-> <<>>]
    /\ UNCHANGED arg

\* lines 34-46: one round of the loop; called lists the files whose text went
\* to extract_data_points
ProcessFile ==
    /\ pc = "loop"
    /\ ret.i <= Len(arg)
    /\ LET file_path == arg[ret.i].file_path
           Processed(full_text) ==
               IF full_text = None \/ full_text = "" THEN [ret EXCEPT !.i = @ + 1]
               ELSE LET Kept(extracted) ==
                            [ret EXCEPT !.i = @ + 1,
                                        !.called = Append(@, ret.i),
                                        !.debug_matches =
                                            SetItem(@, basename(file_path), DebugSnapshot(extracted)),
                                        !.all_extracted_data = Append(@, extracted)]
                    IN  Kept(extract_data_points(full_text, file_path))
       IN  ret' = Processed(extract_pdf_text(arg[ret.i].pdf))
    /\ UNCHANGED <<pc, arg>>

\* lines 50-61: the rows of the CSV file below its header, and the JSON file
WriteOutputs ==
    /\ pc = "loop"
    /\ ret.i > Len(arg)
    /\ ret' = [ret EXCEPT
                 !.csv = [r \in 1..Len(ret.all_extracted_data) |->
                             [h \in 1..Len(COLUMN_HEADERS) |->
                                 Get(ret.all_extracted_data[r], COLUMN_HEADERS[h], "N/A")]],
                 !.json = ret.debug_matches]
    /\ pc' = "written"
    /\ UNCHANGED arg

NextPipeline == StartPipeline \/ ProcessFile \/ WriteOutputs
SpecPipeline == InitPipeline /\ [][NextPipeline]_vars

\* the file whose text gave the j-th record
Source(j) == arg[ret.called[j]]

\* C14: the Page_Count of a record built from the text extract_pdf_text gives
\* for a document of N >= 1 pages is N.
C14_PageCountIsPages ==
    pc \in {"loop", "written"} =>
        \A j \in 1..Len(ret.called) :
            DictItem(ret.all_extracted_data[j], "Page_Count") = IntToStr(Len(Source(j).pdf.pages))

\* C15: no record is built from a file that PdfReader does not open or that has
\* a page on which the OCR engine fails: such a file is skipped, and
\* extract_data_points is not called with what was extracted from it.
C15_FailureNeverReachesEngine ==
    pc \in {"loop", "written"} =>
        \A j \in 1..Len(ret.called) :
            LET pdf == Source(j).pdf
                Blank(page) == page.native = None \/ page.native = "" \/ strip(page.native) = ""
            IN  /\ pdf.opens
                /\ \A p \in 1..Len(pdf.pages) :
                       Blank(pdf.pages[p]) /\ pdf.converts /\ pdf.pages[p].image.present
                           => ~pdf.pages[p].image.raises

\* C16: when the pipeline has written its output, the CSV file has one row and
\* the debug_matches file one entry for each document whose text was extracted,
\* the rows are the records in the order of the files, and the entry of a
\* document marks a field MISSING exactly when its record holds the sentinel
\* for it, also where two files of different sub-directories share a base name.
C16_OneRowAndEntryPerDocument ==
    pc = "written" =>
        /\ Len(ret.csv) = Len(ret.called)
        /\ Len(ret.json) = Len(ret.called)
        /\ \A j \in 1..Len(ret.called) :
               LET record == ret.all_extracted_data[j]
               IN  /\ ret.csv[j][1] = basename(Source(j).file_path)
                   /\ \A h \in 1..Len(COLUMN_HEADERS) :
                          ret.csv[j][h] = DictItem(record, COLUMN_HEADERS[h])
                   /\ \E e \in 1..Len(ret.json) :
                          /\ ret.json[e][1] = basename(Source(j).file_path)
                          /\ \A f \in 1..Len(record) :
                                 /\ ret.json[e][2][f][1] = record[f][1]
                                 /\ (ret.json[e][2][f][2] = "MISSING") <=> (record[f][2] = "N/A")

\* s has no white space but single spaces between other characters
Tidy(s) ==
    /\ \A i \in 1..Len(s) : Ch(s, i) \in Space => Ch(s, i) = " " /\ i > 1 /\ i < Len(s)
    /\ \A i \in 1..(Len(s) - 1) : ~(Ch(s, i) = " " /\ Ch(s, i + 1) = " ")

C18_SkippedEntriesChangeNothing ==
    pc = "done" =>
        LET Skipped(p) == ~p.isstr \/ ~p.valid \/ p.src = arg.text
            kept == SelectSeq(PatternList(arg.patterns), LAMBDA p : ~Skipped(p))
        IN  ret = find_first(List(kept), arg.text)

\* "(" does not compile and the pattern after it gives the result
C18_Witness ==
    /\ pc = "done"
    /\ arg.text = "abc"
    /\ arg.patterns = List(<<[isstr |-> TRUE, valid |-> FALSE, src |-> "(", re |-> Cat(<<>>)],
                             Pat("b+", Plus(Lit("b")))>>)
    /\ ret = "b"

\* C19: find_first returns the sentinel "N/A" or a cleaned string that is not
\* empty, whatever the pattern list and the text: a match that is empty or
\* holds only white space gives no empty result.
C19_NeverEmpty ==
    pc = "done" => ret = "N/A" \/ (ret # "" /\ Tidy(ret))

\* the letter that follows the k-th seconds mark of a text in degrees, minutes
\* and seconds, "" when no letter follows it
LetterAfterMark(text, k) ==
    LET marks == {i \in 1..Len(text) : Ch(text, i) = "\""}
        at == CHOOSE i \in marks : Cardinality({j \in marks : j <= i}) = k
    IN  IF at < Len(text) /\ Ch(text, at + 1) \in {"N", "S", "E", "W", "n", "s", "e", "w"}
        THEN Ch(text, at + 1) ELSE ""

\* C20: a pair that extract_coordinates computes from degrees, minutes and
\* seconds has a negative latitude exactly when the hemisphere letter of the
\* latitude is S, and a negative longitude exactly when that of the longitude is
\* W: an axis with N, E or no letter in the text is not negative.
C20_SignFollowsHemisphere ==
    pc = "done" /\ arg # None /\ Contains(arg, "°") /\ ret # <<"N/A", "N/A">> =>
        /\ (Ch(ret[1], 1) = "-") <=> (LetterAfterMark(arg, 1) \in {"S", "s"})
        /\ (Ch(ret[2], 1) = "-") <=> (LetterAfterMark(arg, 2) \in {"W", "w"})

====
